---- MODULE Spec2Model ----
(***************************************************************************)
(* A model of cjio's CityJSON engine (src/cjio/cityjson.py and             *)
(* src/cjio/geom_help.py): the vertex pool operations (duplicate and       *)
(* orphan removal, compress / decompress), the splicing of a second        *)
(* dataset (add_cityjsonfeature, merge) and the triangulation of faces     *)
(* with the propagation of semantics, material and texture.                *)
(*                                                                         *)
(* Numbers.  A Python number is the record [v, fl]: v is its value in      *)
(* fixed-point units (Unit units make 1.0) and fl tells a float from an    *)
(* int.  str() of 1 is "1" and of 1.0 is "1.0", so the pair is exactly     *)
(* what the text of a number determines.  Arithmetic is exact in the       *)
(* units; floating-point rounding error is not modelled.                   *)
(*                                                                         *)
(* A JSON member that may be absent is a sequence of length 0 or 1.        *)
(* None as a leaf of an index array is the number None.  A semantics array *)
(* is a tree of records [null, v]: null tells None in the place of a list. *)
(* A dict is a sequence of entries in insertion order.                     *)
(***************************************************************************)
EXTENDS Integers, Sequences, FiniteSets, TLC

\* ------------------------------------------------------------------ bounds
\* decimal digits of the fixed-point unit: coordinates are multiples of 10^-MaxDigits
MaxDigits == 1

None == 0 - 1

RECURSIVE Pow10(_)
Pow10(k) == IF k = 0 THEN 1 ELSE 10 * Pow10(k - 1)

Unit == Pow10(MaxDigits)

PyInt(n) == [v |-> n * Unit, fl |-> FALSE]
PyFloat(u) == [v |-> u, fl |-> TRUE]

Abs(x) == IF x < 0 THEN 0 - x ELSE x

RECURSIVE SeqSum(_)
SeqSum(s) == IF s = << >> THEN 0 ELSE Head(s) + SeqSum(Tail(s))

RECURSIVE Concat(_)
Concat(ss) == IF ss = << >> THEN << >> ELSE Head(ss) \o Concat(Tail(ss))

Range(s) == {s[i] : i \in DOMAIN s}

\* position (1-based) of the first occurrence of x in s, 0 when absent
IndexOf(s, x) == IF x \in Range(s)
                 THEN CHOOSE i \in DOMAIN s : s[i] = x /\ \A k \in 1..(i - 1) : s[k] # x
                 ELSE 0

\* s without the repetitions of an element, in order of first occurrence
RECURSIVE FirstSeen(_)
FirstSeen(s) == IF s = << >> THEN << >>
                ELSE LET r == FirstSeen(SubSeq(s, 1, Len(s) - 1))
                         x == s[Len(s)]
                     IN  IF x \in Range(r) THEN r ELSE Append(r, x)

\* ----------------------------------------------------- shapes of geometries
\* nesting depth of "boundaries" per geometry type
Depth(type) == CASE type = "MultiPoint" -> 1
                 [] type = "GeometryInstance" -> 1
                 [] type = "MultiLineString" -> 2
                 [] type = "MultiSurface" -> 3
                 [] type = "CompositeSurface" -> 3
                 [] type = "Solid" -> 4
                 [] type = "MultiSolid" -> 5
                 [] type = "CompositeSolid" -> 5

ObjGeoms(o) == IF o.geometry = << >> THEN << >> ELSE o.geometry[1]

\* the leaves of a nested array of depth d, in traversal order
RECURSIVE Leaves(_, _)
Leaves(a, d) == IF d = 0 THEN << a >>
                ELSE Concat([i \in DOMAIN a |-> Leaves(a[i], d - 1)])

\* every geometry of every CityObject of dataset j, in iteration order
AllGeoms(j) == Concat([i \in DOMAIN j.CityObjects |-> ObjGeoms(j.CityObjects[i])])

\* dataset j with every geometry g's boundaries replaced by F(g)
WithBoundaries(j, F(_)) ==
    [j EXCEPT !.CityObjects =
        [i \in DOMAIN j.CityObjects |->
            LET o == j.CityObjects[i]
            IN  IF o.geometry = << >> THEN o
                ELSE [o EXCEPT !.geometry =
                        << [k \in DOMAIN o.geometry[1] |->
                              [o.geometry[1][k] EXCEPT !.boundaries = F(o.geometry[1][k])]] >>]]]

\* --------------------------------------------------- remove_orphan_vertices
\* visit_geom over every geometry: the used vertex ids in first-encountered order
visit_geom(j) ==
    LET gs == AllGeoms(j)
    IN  FirstSeen(Concat([i \in DOMAIN gs |-> Leaves(gs[i].boundaries, Depth(gs[i].type))]))

\* mutant: the new id is not written back
update_face_keep(a, d, newvertices) == a

RECURSIVE update_face(_, _, _)
update_face(a, d, newvertices) ==
    IF d = 0 THEN IndexOf(newvertices, a) - 1
    ELSE [i \in DOMAIN a |-> update_face(a[i], d - 1, newvertices)]

\* the dataset after remove_orphan_vertices and the value it returns
remove_orphan_vertices(j) ==
    LET newvertices == visit_geom(j)
        j2 == WithBoundaries(j, LAMBDA g : update_face(g.boundaries, Depth(g.type), newvertices))
        newv2 == [i \in DOMAIN newvertices |-> j.vertices[newvertices[i] + 1]]
    IN  [j |-> [j2 EXCEPT !.vertices = newv2],
         ret |-> Len(j.vertices) - Len(newv2)]

\* ------------------------------------------------ remove_duplicate_vertices
\* the text "{x} {y} {z}" of a vertex: it tells 1 from 1.0
VertexKey(v) == v

\* mutant: the whole part of every number, whatever the transform
ParseVertexInt(s, hasTransform) == [i \in DOMAIN s |-> PyInt(s[i].v \div Unit)]

\* the new vertex from its text: int() under a transform, float() without
ParseVertex(s, hasTransform) ==
    IF hasTransform THEN s ELSE [i \in DOMAIN s |-> PyFloat(s[i].v)]

RECURSIVE dedup_update_geom_indices(_, _, _)
dedup_update_geom_indices(a, d, newids) ==
    IF d = 0 THEN newids[a + 1]
    ELSE [i \in DOMAIN a |-> dedup_update_geom_indices(a[i], d - 1, newids)]

\* mutant: no vertex is removed
remove_duplicate_vertices_none(j) == [j |-> j, ret |-> 0]

remove_duplicate_vertices(j) ==
    LET keys == [i \in DOMAIN j.vertices |-> VertexKey(j.vertices[i])]
        newvertices == FirstSeen(keys)
        newids == [i \in DOMAIN keys |-> IndexOf(newvertices, keys[i]) - 1]
        j2 == WithBoundaries(j, LAMBDA g : dedup_update_geom_indices(g.boundaries, Depth(g.type), newids))
        newv2 == [i \in DOMAIN newvertices |-> ParseVertex(newvertices[i], j.transform # << >>)]
    IN  [j |-> [j2 EXCEPT !.vertices = newv2],
         ret |-> Len(j.vertices) - Len(newv2)]

\* ------------------------------------------------------ compress/decompress
\* int(("%.<k>f" % n).replace(".", "")) for n = u units: n * 10^k rounded to
\* the nearest integer, a tie to the even one
\* mutant: the digits after the k-th are cut off instead of rounded
FormatFixedTrunc(u, k) ==
    IF k >= MaxDigits THEN u * Pow10(k - MaxDigits)
    ELSE u \div Pow10(MaxDigits - k)

FormatFixed(u, k) ==
    IF k >= MaxDigits THEN u * Pow10(k - MaxDigits)
    ELSE LET m == Pow10(MaxDigits - k)
             q == u \div m
             r == u % m
         IN  IF 2 * r < m THEN q
             ELSE IF 2 * r > m THEN q + 1
             ELSE IF q % 2 = 0 THEN q ELSE q + 1

\* 9e9, the start of the minimum search, in units (scaled down to fit 32 bits;
\* every coordinate of the model is far below it)
BBoxStart == 900000000

\* the per-axis minimum of the pool, starting from 9e9
\* mutant: the first vertex is taken as the minimum
MinBBoxFirst(vertices) == vertices[1]

MinBBox(vertices) ==
    [i \in 1..3 |->
        IF \A m \in DOMAIN vertices : ~(vertices[m][i].v < BBoxStart) THEN PyFloat(BBoxStart)
        ELSE LET k == CHOOSE k \in DOMAIN vertices :
                        /\ \A m \in DOMAIN vertices : vertices[k][i].v <= vertices[m][i].v
                        /\ \A m \in 1..(k - 1) : vertices[m][i].v > vertices[k][i].v
             IN  vertices[k][i]]

\* translate = << >> is translate=None; scale is kept as the number of digits k (10^-k)
\* mutant: without the guard of line 965, the transform is replaced
compress_unguarded(j, important_digits, translate) ==
    [j |-> [j EXCEPT !.transform =
                << [scale |-> important_digits,
                    translate |-> IF translate # << >> THEN translate[1] ELSE MinBBox(j.vertices)] >>],
     ret |-> TRUE]

compress(j, important_digits, translate) ==
    IF j.transform # << >> THEN [j |-> j, ret |-> FALSE]
    ELSE LET bbox == IF translate # << >> THEN translate[1] ELSE MinBBox(j.vertices)
             q == [n \in DOMAIN j.vertices |->
                     [i \in 1..3 |->
                        [v |-> Unit * FormatFixed(j.vertices[n][i].v - bbox[i].v, important_digits),
                         fl |-> FALSE]]]
             j1 == [j EXCEPT !.vertices = q,
                             !.transform = << [scale |-> important_digits, translate |-> bbox] >>]
             j2 == remove_duplicate_vertices(j1).j
             j3 == remove_orphan_vertices(j2).j
         IN  [j |-> j3, ret |-> TRUE]

\* v * scale + translate, a float
decompress(j) ==
    IF j.transform # << >>
    THEN LET t == j.transform[1]
         IN  [j |-> [j EXCEPT !.vertices =
                        [n \in DOMAIN j.vertices |->
                            [i \in 1..3 |->
                                PyFloat((j.vertices[n][i].v \div Unit) * Pow10(MaxDigits - t.scale)
                                        + t.translate[i].v)]],
                     !.transform = << >>],
              ret |-> TRUE]
    ELSE [j |-> j, ret |-> FALSE]

\* ------------------------------------------------- the two index visitors
\* update_geom_indices(a, offset): offset is added to every leaf that is not None
RECURSIVE update_geom_indices(_, _, _)
update_geom_indices_not(a, d, offset) == a

update_geom_indices(a, d, offset) ==
    IF d = 0 THEN (IF a = None THEN a ELSE a + offset)
    ELSE [i \in DOMAIN a |-> update_geom_indices(a[i], d - 1, offset)]

\* update_texture_indices(a, toffset, voffset): in every innermost list the
\* element at position 0 gets toffset and the others voffset, None is kept
RECURSIVE update_texture_indices(_, _, _, _)
update_texture_indices_one(a, d, toffset, voffset) ==
    IF d = 1
    THEN [i \in DOMAIN a |-> IF a[i] = None THEN a[i] ELSE a[i] + toffset]
    ELSE [i \in DOMAIN a |-> update_texture_indices(a[i], d - 1, toffset, voffset)]

update_texture_indices(a, d, toffset, voffset) ==
    IF d = 1
    THEN [i \in DOMAIN a |->
            IF a[i] = None THEN a[i]
            ELSE IF i = 1 THEN a[i] + toffset ELSE a[i] + voffset]
    ELSE [i \in DOMAIN a |-> update_texture_indices(a[i], d - 1, toffset, voffset)]

\* depth of a material "values" array: one entry per face
MaterialDepth(type) == Depth(type) - 2

OffsetBoundaries(g, offset) ==
    [g EXCEPT !.boundaries = update_geom_indices(g.boundaries, Depth(g.type), offset)]

\* the material member of a geometry after the update of lines 1183-1192
\* mutant: only the nested values are updated
OffsetMaterialValues(g, offset) ==
    [g EXCEPT !.material =
        [m \in DOMAIN g.material |->
            IF g.material[m].kind = "values"
            THEN [g.material[m] EXCEPT !.v = update_geom_indices(g.material[m].v, MaterialDepth(g.type), offset)]
            ELSE g.material[m]]]

OffsetMaterial(g, offset) ==
    [g EXCEPT !.material =
        [m \in DOMAIN g.material |->
            IF g.material[m].kind = "values"
            THEN [g.material[m] EXCEPT !.v = update_geom_indices(g.material[m].v, MaterialDepth(g.type), offset)]
            ELSE [g.material[m] EXCEPT !.v = g.material[m].v + offset]]]

\* the texture themes of g up to (not including) theme `stop`, updated as in
\* lines 1217-1222; stop = Len + 1 updates them all
OffsetTexture(g, toffset, voffset, stop) ==
    [g EXCEPT !.texture =
        [m \in DOMAIN g.texture |->
            IF m < stop /\ g.texture[m].values # << >>
            THEN [g.texture[m] EXCEPT !.values =
                    << update_texture_indices(g.texture[m].values[1], Depth(g.type), toffset, voffset) >>]
            ELSE g.texture[m]]]

\* position of the CityObject with this id in a dataset's objects, 0 when absent
ObjIndex(objs, id) ==
    IF \E i \in DOMAIN objs : objs[i].id = id
    THEN CHOOSE i \in DOMAIN objs : objs[i].id = id
    ELSE 0

\* a geometry without the member "lod" (a GeometryInstance has none)
NoLod == ""

\* lines 1121-1124: the search of A's list for thelod; g2["lod"] of a geometry
\* without lod, met before a match, is a KeyError
RECURSIVE find_lod(_, _)
find_lod(geoms, thelod) ==
    IF geoms = << >> THEN [b |-> FALSE, raised |-> FALSE]
    ELSE IF Head(geoms).lod = NoLod THEN [b |-> FALSE, raised |-> TRUE]
    ELSE IF Head(geoms).lod = thelod THEN [b |-> TRUE, raised |-> FALSE]
    ELSE find_lod(Tail(geoms), thelod)

\* lines 1118-1132: a geometry of B's object is appended to A's list when no
\* geometry of the list (as it grows) carries the same lod
RECURSIVE merge_geoms(_, _, _)
merge_geoms(geoms, cmgeoms, offset) ==
    IF cmgeoms = << >> THEN [geoms |-> geoms, raised |-> FALSE]
    ELSE LET g == Head(cmgeoms)
             f == find_lod(geoms, g.lod)
         IN  IF g.lod = NoLod \/ f.raised THEN [geoms |-> geoms, raised |-> TRUE]
             ELSE merge_geoms(IF f.b THEN geoms ELSE Append(geoms, OffsetBoundaries(g, offset)),
                              Tail(cmgeoms), offset)

\* lines 1110-1115: the names of B's attributes that A lacks are added
merge_attributes(attrs, cmattrs) ==
    [a \in DOMAIN attrs \cup DOMAIN cmattrs |->
        IF a \in DOMAIN attrs THEN attrs[a] ELSE cmattrs[a]]

\* lines 1107-1138 for one CityObject o of B; raised is a KeyError
merge_object(objs, o, offset) ==
    LET i == ObjIndex(objs, o.id)
    IN  IF i = 0
        THEN [objs |-> Append(objs,
                         IF o.geometry = << >> THEN o
                         ELSE [o EXCEPT !.geometry =
                                 << [k \in DOMAIN o.geometry[1] |->
                                       OffsetBoundaries(o.geometry[1][k], offset)] >>]),
              raised |-> FALSE]
        ELSE LET mine == objs[i]
                 noattrs == /\ o.attributes # << >>
                            /\ DOMAIN o.attributes[1] # { }
                            /\ mine.attributes = << >>
                 attrs == IF o.attributes # << >> /\ mine.attributes # << >>
                          THEN << merge_attributes(mine.attributes[1], o.attributes[1]) >>
                          ELSE mine.attributes
                 nogeom == mine.geometry # << >> /\ o.geometry = << >>
                 mg == IF mine.geometry # << >> /\ o.geometry # << >>
                       THEN merge_geoms(mine.geometry[1], o.geometry[1], offset)
                       ELSE [geoms |-> ObjGeoms(mine), raised |-> FALSE]
                 geoms == IF mine.geometry = << >> THEN << >> ELSE << mg.geoms >>
             IN  IF noattrs THEN [objs |-> objs, raised |-> TRUE]
                 ELSE IF nogeom
                 THEN [objs |-> [objs EXCEPT ![i].attributes = attrs], raised |-> TRUE]
                 ELSE [objs |-> [objs EXCEPT ![i].attributes = attrs, ![i].geometry = geoms],
                       raised |-> mg.raised]

\* the loop of line 1107 over B's CityObjects, stopped by the first KeyError
RECURSIVE merge_objects(_, _, _)
merge_objects(objs, cmobjs, offset) ==
    IF cmobjs = << >> THEN [objs |-> objs, raised |-> FALSE]
    ELSE LET r == merge_object(objs, Head(cmobjs), offset)
         IN  IF r.raised THEN r ELSE merge_objects(r.objs, Tail(cmobjs), offset)

\* the objects of A with every geometry of the objects that B names replaced by F
WithGeomsOf(objs, cmobjs, F(_)) ==
    [i \in DOMAIN objs |->
        IF ObjIndex(cmobjs, objs[i].id) = 0 \/ objs[i].geometry = << >> THEN objs[i]
        ELSE [objs[i] EXCEPT !.geometry =
                << [k \in DOMAIN objs[i].geometry[1] |-> F(objs[i].geometry[1][k])] >>]]

\* lines 1140-1166: templates and vertices-templates appended, GeometryInstances renumbered
merge_templates(j, cm) ==
    IF cm.templates = << >> THEN j
    ELSE LET mine == IF j.templates # << >> THEN j.templates[1]
                     ELSE [templates |-> << >>, vertices_templates |-> << >>]
             notemplates == Len(mine.templates)
             novtemplate == Len(mine.vertices_templates)
             theirs == cm.templates[1]
         IN  [j EXCEPT
                !.templates =
                    << [templates |-> mine.templates \o
                            [t \in DOMAIN theirs.templates |->
                                OffsetBoundaries(theirs.templates[t], novtemplate)],
                        vertices_templates |-> mine.vertices_templates \o theirs.vertices_templates] >>,
                !.CityObjects =
                    WithGeomsOf(j.CityObjects, cm.CityObjects,
                                LAMBDA g : IF g.type = "GeometryInstance"
                                           THEN [g EXCEPT !.template = g.template + notemplates]
                                           ELSE g)]

\* lines 1168-1192: materials appended, the material of the geometries renumbered
merge_materials(j, cm) ==
    IF cm.materials = << >> THEN j
    ELSE LET mine == IF j.materials # << >> THEN j.materials[1] ELSE << >>
             offset == Len(mine)
         IN  [j EXCEPT
                !.materials = << mine \o cm.materials[1] >>,
                !.CityObjects = WithGeomsOf(j.CityObjects, cm.CityObjects,
                                            LAMBDA g : OffsetMaterial(g, offset))]

\* the texture themes in the order lines 1215-1218 visit them: B's objects in
\* B's order, then the geometries of A's object, then the themes.  With
\* strict (add_cityjsonfeature, line 1070) an object without geometry is a
\* visit << i, 0, 0 >>, where KeyError is raised.
TextureVisits(objs, cmobjs, strict) ==
    Concat([b \in DOMAIN cmobjs |->
        LET i == ObjIndex(objs, cmobjs[b].id)
        IN  IF i = 0 THEN << >>
            ELSE IF objs[i].geometry = << >> THEN (IF strict THEN << << i, 0, 0 >> >> ELSE << >>)
            ELSE Concat([k \in DOMAIN ObjGeoms(objs[i]) |->
                    [m \in DOMAIN ObjGeoms(objs[i])[k].texture |-> << i, k, m >>]])])

\* lines 1194-1226 (and 1048-1080): textures and uv vertices appended, the
\* texture leaves renumbered up to the first theme without "values", where
\* KeyError is raised
merge_textures(j, cm, strict) ==
    IF cm.textures = << >> THEN [j |-> j, raised |-> FALSE]
    ELSE LET has == j.textures # << >>
             mine == IF has THEN j.textures[1] ELSE << >>
             minev == IF j.vertices_texture # << >> THEN j.vertices_texture[1] ELSE << >>
             toffset == IF has THEN Len(mine) ELSE 0
             voffset == IF has THEN Len(minev) ELSE 0
             visits == TextureVisits(j.CityObjects, cm.CityObjects, strict)
             bad == { n \in DOMAIN visits :
                        \/ visits[n][2] = 0
                        \/ ObjGeoms(j.CityObjects[visits[n][1]])[visits[n][2]].texture[visits[n][3]].values = << >> }
             stop == IF bad = { } THEN Len(visits) + 1
                     ELSE CHOOSE n \in bad : \A n2 \in bad : n <= n2
             Before(i, k) == { n \in 1..(stop - 1) : visits[n][1] = i /\ visits[n][2] = k }
             objs == [i \in DOMAIN j.CityObjects |->
                        IF j.CityObjects[i].geometry = << >> THEN j.CityObjects[i]
                        ELSE [j.CityObjects[i] EXCEPT !.geometry =
                                << [k \in DOMAIN j.CityObjects[i].geometry[1] |->
                                      OffsetTexture(j.CityObjects[i].geometry[1][k], toffset, voffset,
                                                    Cardinality(Before(i, k)) + 1)] >>]]
         IN  [j |-> [j EXCEPT !.textures = << mine \o cm.textures[1] >>,
                              !.vertices_texture = << minev \o cm.vertices_texture[1] >>,
                              !.CityObjects = objs],
              raised |-> bad # { }]

\* ------------------------------------------------------------------- merge
\* mutant: the digits of the target are kept
MaxFirst(a, b) == a

Max(a, b) == IF a > b THEN a ELSE b

\* one round of the loop of line 1099 for dataset cm: [j, imp_digits, raised, cm]
\* where cm is B as the round leaves it (decompressed)
merge_one(j, imp_digits, cm) ==
    IF cm.transform = << >>
    THEN [j |-> j, imp_digits |-> imp_digits, raised |-> TRUE, cm |-> cm]
    ELSE LET digits == Max(imp_digits, cm.transform[1].scale)
             cmd == decompress(cm).j
             offset == Len(j.vertices)
             j1 == [j EXCEPT !.vertices = j.vertices \o cmd.vertices]
             r == merge_objects(j1.CityObjects, cmd.CityObjects, offset)
             j2 == [j1 EXCEPT !.CityObjects = r.objs]
             j3 == merge_templates(j2, cmd)
             j4 == merge_materials(j3, cmd)
             t == merge_textures(j4, cmd, FALSE)
         IN  IF r.raised
             THEN [j |-> j2, imp_digits |-> digits, raised |-> TRUE, cm |-> cmd]
             ELSE [j |-> t.j, imp_digits |-> digits, raised |-> t.raised, cm |-> cmd]

RECURSIVE merge_loop(_, _, _)
\* the rest of the loop of line 1094 after one dataset was merged with result r
merge_next(r, lsCMs) ==
    IF r.raised THEN [j |-> r.j, imp_digits |-> r.imp_digits, raised |-> TRUE]
    ELSE merge_loop(r.j, r.imp_digits, lsCMs)

merge_loop(j, imp_digits, lsCMs) ==
    IF lsCMs = << >> THEN [j |-> j, imp_digits |-> imp_digits, raised |-> FALSE]
    ELSE merge_next(merge_one(j, imp_digits, Head(lsCMs)), Tail(lsCMs))

\* lines 1228-1232 on the result r of the loop: the pool is cleaned and
\* compressed; mid is self.j after the loop (line 1227), before that
merge_cleanup(r) ==
    IF r.raised THEN [j |-> r.j, mid |-> r.j, raised |-> TRUE]
    ELSE [j |-> compress(remove_orphan_vertices(remove_duplicate_vertices(r.j).j).j,
                         r.imp_digits, << >>).j,
          mid |-> r.j, raised |-> FALSE]

\* merge(lsCMs): j is self.j when merge returns or raises
merge(j, lsCMs) ==
    IF j.transform = << >> THEN [j |-> j, mid |-> j, raised |-> TRUE]
    ELSE merge_cleanup(merge_loop(decompress(j).j, j.transform[1].scale, lsCMs))

\* ------------------------------------------- what merge leaves of a merged dataset
\* lines 1118-1127: append(g) puts B's own geometry object in A's list, so every
\* later update of it in A is an update of B's geometry; cmgeoms are B's
\* geometries, lods the lods of A's list as it grows and tail the geometries A's
\* list gained, as they are when merge ends
RECURSIVE alias_geoms(_, _, _)
alias_geoms(cmgeoms, lods, tail) ==
    IF cmgeoms = << >> \/ tail = << >> THEN cmgeoms
    ELSE IF Head(cmgeoms).lod \in lods
    THEN << Head(cmgeoms) >> \o alias_geoms(Tail(cmgeoms), lods, tail)
    ELSE << Head(tail) >> \o
         alias_geoms(Tail(cmgeoms), lods \cup { Head(cmgeoms).lod }, Tail(tail))

\* B's CityObject o after merge, objs0 being A's objects before and objs A's
\* objects when merge ends: line 1135 makes a new id of A refer to B's own object
alias_object(o, objs0, objs) ==
    LET i0 == ObjIndex(objs0, o.id)
        i == ObjIndex(objs, o.id)
    IN  IF i = 0 THEN o
        ELSE IF i0 = 0 THEN objs[i]
        ELSE IF o.geometry = << >> \/ objs0[i0].geometry = << >> THEN o
        ELSE [o EXCEPT !.geometry =
                << alias_geoms(o.geometry[1],
                               { objs0[i0].geometry[1][k].lod : k \in DOMAIN objs0[i0].geometry[1] },
                               SubSeq(objs[i].geometry[1], Len(objs0[i0].geometry[1]) + 1,
                                      Len(objs[i].geometry[1]))) >>]

\* lines 1152-1155: append(t) puts B's own template object in A's list
alias_templates(cm, j0, j) ==
    IF cm.templates = << >> \/ j.templates = << >> THEN cm.templates
    ELSE LET n0 == IF j0.templates = << >> THEN 0 ELSE Len(j0.templates[1].templates)
             n == Len(j.templates[1].templates)
         IN  IF n = n0 THEN cm.templates
             ELSE << [cm.templates[1] EXCEPT
                        !.templates = SubSeq(j.templates[1].templates, n0 + 1, n)] >>

\* dataset cm after self.merge([cm]), where j0 is self.j before the call and j
\* self.j when the call returns or raises: cm is decompressed in place (line
\* 1103) and the objects it shares with self are as self has them
merged_dataset(cm, j0, j) ==
    IF j0.transform = << >> \/ cm.transform = << >> THEN cm
    ELSE [decompress(cm).j EXCEPT
            !.CityObjects = [i \in DOMAIN cm.CityObjects |->
                               alias_object(cm.CityObjects[i], j0.CityObjects, j.CityObjects)],
            !.templates = alias_templates(cm, j0, j)]

\* ----------------------------------------------------- add_cityjsonfeature
\* lines 1017-1021: each CityObject of the feature is assigned to its id
RECURSIVE assign_objects(_, _, _)
assign_objects(objs, fobjs, offset) ==
    IF fobjs = << >> THEN objs
    ELSE LET o == Head(fobjs)
             o2 == IF o.geometry = << >> THEN o
                   ELSE [o EXCEPT !.geometry =
                           << [k \in DOMAIN o.geometry[1] |-> OffsetBoundaries(o.geometry[1][k], offset)] >>]
             i == ObjIndex(objs, o.id)
         IN  assign_objects(IF i = 0 THEN Append(objs, o2) ELSE [objs EXCEPT ![i] = o2],
                            Tail(fobjs), offset)

add_cityjsonfeature(j, f) ==
    LET offset == Len(j.vertices)
        j1 == [j EXCEPT !.vertices = j.vertices \o f.vertices,
                        !.CityObjects = assign_objects(j.CityObjects, f.CityObjects, offset)]
        j2 == merge_materials(j1, f)
        t == merge_textures(j2, f, TRUE)
    IN  [j |-> t.j, raised |-> t.raised]

\* -------------------------------------------------- geom_help: triangulate_face
\* vnp[sf]: the coordinates (in units) of the pool indices sf
Coords(vnp, sf) ==
    [k \in DOMAIN sf |-> [c \in 1..3 |-> vnp[sf[k] + 1][c].v]]

\* get_normal_newell(poly): n before it is normalised and the flag b (n is not
\* the zero vector); the sums are exact here, the code sums float64
get_normal_newell(poly) ==
    LET N == Len(poly)
        ne(i) == IF i = N THEN 1 ELSE i + 1
        term(i, a, b) == (poly[i][a] - poly[ne(i)][a]) * (poly[i][b] + poly[ne(i)][b])
        n == << SeqSum([i \in 1..N |-> term(i, 2, 3)]),
                SeqSum([i \in 1..N |-> term(i, 3, 1)]),
                SeqSum([i \in 1..N |-> term(i, 1, 2)]) >>
    IN  [n |-> n, b |-> n # << 0, 0, 0 >>]

\* What a triangulation library returns is not in this repository. Its result
\* for n input points is one of these kinds; the indices are positions 0..n-1
\* in the input, and Triangle may add a point (index n) where segments cross.
\*   "fan", "none": a list of n-2 or of 0 triangles
\*   "steiner": a triangle with the index n           (Triangle only)
\*   "nokey": a result without the key "triangles"     (Triangle only)
\*   "raise": the call of line 141 raises              (Triangle only)
\*   "handlerfail": the call of line 141 raises and np.array(face) of line 146
\*       raises on rings of unequal lengths (numpy >= 1.24)
\*   "holefail": the call of line 131 for a hole raises or returns no triangle
LibraryTriangles(kind, n) ==
    CASE kind = "fan" -> [k \in 1..(n - 2) |-> << 0, k, k + 1 >>]
      [] kind = "steiner" -> << << 0, 1, 2 >>, << 1, 2, n >> >>
      [] OTHER -> << >>

EarcutKinds == { "fan", "none" }

Ragged(face) == \E i, k \in DOMAIN face : Len(face[i]) # Len(face[k])

TriangleKinds(face) ==
    { "fan", "none", "steiner", "nokey", "raise" }
        \cup (IF Len(face) > 1 THEN { "holefail" } ELSE { })
        \cup (IF Ragged(face) THEN { "handlerfail" } ELSE { })

\* the result of triangulate_face: re and b as returned (re is << >> where b is
\* FALSE: no caller reads it), raised when it ends in an exception, and face as
\* the call leaves the caller's list
FaceResult(re, b, raised, face) == [re |-> re, b |-> b, raised |-> raised, face |-> face]

\* lines 151-153 and 195-197: positions in sf are replaced by the pool indices
MapBackLocal(sf, triangles) == triangles

MapBack(sf, triangles) ==
    [t \in DOMAIN triangles |-> [k \in 1..3 |-> sf[triangles[t][k] + 1]]]

\* lines 67-73: every ring without the repetitions of an index
CleanRings(face) == [i \in DOMAIN face |-> FirstSeen(face[i])]

triangulate_face_shewchuk(face, vnp, kind) ==
    LET f == CleanRings(face)
        sf == Concat(f)
        triangles == LibraryTriangles(kind, Len(sf))
    IN  IF Len(f) = 1 /\ Len(f[1]) <= 3
        THEN (IF Len(f[1]) = 3 THEN FaceResult(f, TRUE, FALSE, f)
              ELSE FaceResult(<< >>, FALSE, FALSE, f))
        ELSE IF \E i \in DOMAIN f : Len(f[i]) < 3 THEN FaceResult(<< >>, FALSE, FALSE, f)
        ELSE IF kind \in { "holefail", "handlerfail" } THEN FaceResult(<< >>, FALSE, TRUE, f)
        ELSE IF kind \in { "raise", "nokey" } THEN FaceResult(<< >>, FALSE, FALSE, f)
        ELSE IF \E t \in DOMAIN triangles : \E k \in 1..3 : triangles[t][k] >= Len(sf)
        THEN FaceResult(<< >>, FALSE, FALSE, f)
        ELSE FaceResult(MapBack(sf, triangles), TRUE, FALSE, f)

triangulate_face_mapbox_earcut(face, vnp, kind) ==
    LET sf == Concat(face)
    IN  IF Len(face) = 1 /\ Len(face[1]) = 3 THEN FaceResult(face, TRUE, FALSE, face)
        ELSE IF ~get_normal_newell(Coords(vnp, sf)).b THEN FaceResult(<< >>, FALSE, FALSE, face)
        ELSE FaceResult(MapBack(sf, LibraryTriangles(kind, Len(sf))), TRUE, FALSE, face)

triangulate_face(face, vnp, sloppy, kind) ==
    IF ~sloppy THEN triangulate_face_shewchuk(face, vnp, kind)
    ELSE triangulate_face_mapbox_earcut(face, vnp, kind)

\* the call of triangulate_face for this face gets to the library
ReachesLibrary(face, vnp, sloppy) ==
    IF sloppy
    THEN ~(Len(face) = 1 /\ Len(face[1]) = 3) /\ get_normal_newell(Coords(vnp, Concat(face))).b
    ELSE \A i \in DOMAIN face : Len(FirstSeen(face[i])) >= (IF Len(face) = 1 THEN 4 ELSE 3)

\* the kinds of result the library can give for this face
Kinds(face, sloppy) == IF sloppy THEN EarcutKinds ELSE TriangleKinds(CleanRings(face))

\* ------------------------------------------------------ CityJSON.triangulate
\* the element of a nested array at a path of positions (1-based)
RECURSIVE At(_, _)
At(a, path) == IF path = << >> THEN a ELSE At(a[Head(path)], Tail(path))

RECURSIVE ValidPath(_, _)
ValidPath(a, path) ==
    \/ path = << >>
    \/ Head(path) \in DOMAIN a /\ ValidPath(a[Head(path)], Tail(path))

\* geom["semantics"]["values"] along the path of a face: null when the array or
\* a branch on the way is None, ok unless an index is out of range
RECURSIVE SemAt(_, _)
SemAt(vals, path) ==
    IF path = << >> THEN [null |-> FALSE, ok |-> TRUE, v |-> vals]
    ELSE IF vals.null THEN [null |-> TRUE, ok |-> TRUE, v |-> None]
    ELSE IF Head(path) \notin DOMAIN vals.v THEN [null |-> FALSE, ok |-> FALSE, v |-> None]
    ELSE SemAt(vals.v[Head(path)], Tail(path))

\* the index the code uses in a material theme's "values" for face i:
\* values[i] (line 1948), values[0][i] (line 2038), values[0][0][i] (line 2167)
MaterialPath(path) == [k \in DOMAIN path |-> IF k = Len(path) THEN path[k] ELSE 1]

\* lines 1907-1921 for one theme: the vertices of the rings whose texture is not
\* None, and what tmap holds for them; tv is values[..][i], one list per ring
TMapKeys(face, tv) ==
    Concat([ii \in DOMAIN face |-> IF tv[ii][1] = None THEN << >> ELSE face[ii]])

TMapValues(face, tv) ==
    Concat([ii \in DOMAIN face |->
              IF tv[ii][1] = None THEN << >> ELSE SubSeq(tv[ii], 2, Len(face[ii]) + 1)])

TPositions(face, tv) ==
    Concat([ii \in DOMAIN face |-> IF tv[ii][1] = None THEN << >> ELSE << tv[ii][1] >>])

\* tmap[vindex]: a later assignment replaces an earlier one
TMapGet(keys, values, vindex) ==
    values[CHOOSE k \in DOMAIN keys :
              keys[k] = vindex /\ \A l \in DOMAIN keys : l > k => keys[l] # vindex]

\* lines 1907-1921 raise: a theme without "values" (KeyError) or with fewer
\* entries than the face has rings and vertices (IndexError)
TextureRaises(face, path, texture) ==
    \E m \in DOMAIN texture :
        \/ texture[m].values = << >>
        \/ ~ValidPath(texture[m].values[1], path)
        \/ LET tv == At(texture[m].values[1], path)
           IN  \E ii \in DOMAIN face :
                  \/ ii \notin DOMAIN tv
                  \/ tv[ii] = << >>
                  \/ tv[ii][1] # None /\ Len(tv[ii]) < Len(face[ii]) + 1

\* lines 1949-1960 for one triangle t and one theme: [tposition, uv, uv, uv],
\* or [None] when tmap is empty
TextureEntry(t, keys, values, tposition) ==
    IF keys = << >> THEN << << None >> >>
    ELSE << << tposition >> \o [k \in 1..3 |-> TMapGet(keys, values, t[k])] >>

KindOf(lib, face) == IF face \in DOMAIN lib THEN lib[face] ELSE "none"

\* what the loop body of lines 1904-1960 (2002-2050, 2101-2178) does for one
\* face: the triangles and the entries it appends, whether it raises, the face
\* as it leaves the list in "boundaries", and the call of triangulate_face
TriangulatedFace(tris, n, sem, mat, tex, raised, face, call) ==
    [tris |-> tris, n |-> n, sem |-> sem, mat |-> mat, tex |-> tex,
     raised |-> raised, face |-> face, call |-> call]

\* lines 1907-1921: per theme, tmap as its keys and values, and tposition as
\* the last assignment over all themes leaves it (0 without one)
TextureMaps(face, path, texture) ==
    LET tpositions == Concat([m \in DOMAIN texture |->
                                TPositions(face, At(texture[m].values[1], path))])
    IN  [keys |-> [m \in DOMAIN texture |-> TMapKeys(face, At(texture[m].values[1], path))],
         values |-> [m \in DOMAIN texture |-> TMapValues(face, At(texture[m].values[1], path))],
         tposition |-> IF tpositions = << >> THEN 0 ELSE tpositions[Len(tpositions)]]

triangulate_one_face(face, path, geom, vnp, sloppy, lib) ==
    LET sflag == geom.semantics # << >>
        istriangle == Len(face) = 1 /\ Len(face[1]) = 3
        mpath == MaterialPath(path)
        Raised(left, call) == TriangulatedFace(<< >>, 0, None, << >>, << >>, TRUE, left, call)
        \* the loop over the triangles tris of re that are reached
        Emit(sem, r, tm, call, tris, n) ==
            IF n > 0 /\ ~( /\ sem.ok
                           /\ \A m \in DOMAIN geom.material :
                                 geom.material[m].kind = "values" =>
                                     ValidPath(geom.material[m].v, mpath)
                           /\ \A m \in DOMAIN geom.texture :
                                 \/ tm.keys[m] = << >>
                                 \/ \A t \in DOMAIN tris : \A k \in 1..3 :
                                       tris[t][k] \in Range(tm.keys[m]) )
            THEN Raised(r.face, call)
            ELSE TriangulatedFace(
                    tris, n, sem.v,
                    [m \in DOMAIN geom.material |->
                        IF geom.material[m].kind = "values" /\ n > 0
                        THEN At(geom.material[m].v, mpath) ELSE None],
                    [m \in DOMAIN geom.texture |->
                        [t \in 1..n |->
                            TextureEntry(tris[t], tm.keys[m], tm.values[m], tm.tposition)]],
                    FALSE, r.face, call)
        \* a None in the semantics ends the loop at the first triangle
        Loop(sem, r, tm, call) ==
            IF r.raised THEN Raised(r.face, call)
            ELSE IF ~r.b THEN Emit(sem, r, tm, call, << >>, 0)
            ELSE IF sflag /\ sem.null
            THEN Emit(sem, r, tm, call, SubSeq(r.re, 1, IF Len(r.re) = 0 THEN 0 ELSE 1), 0)
            ELSE Emit(sem, r, tm, call, r.re, Len(r.re))
        Called1(sem, r, tm) ==
            Loop(sem, r, tm,
                 IF istriangle THEN << >> ELSE << [face |-> face, re |-> r.re, b |-> r.b] >>)
    IN  IF TextureRaises(face, path, geom.texture) THEN Raised(face, << >>)
        ELSE Called1(IF sflag THEN SemAt(geom.semantics[1], path)
                     ELSE [null |-> FALSE, ok |-> TRUE, v |-> None],
                     IF istriangle THEN FaceResult(face, TRUE, FALSE, face)
                     ELSE triangulate_face(face, vnp, sloppy, KindOf(lib, face)),
                     TextureMaps(face, path, geom.texture))

\* the levels of lists above the faces of "boundaries": MultiSurface 1, Solid 2,
\* MultiSolid 3
FaceDepth(type) == Depth(type) - 2

IsTriangulated(type) ==
    type \in { "MultiSurface", "CompositeSurface", "Solid", "MultiSolid", "CompositeSolid" }

\* the loop body applied to every face of "boundaries", in the same nesting
RECURSIVE FaceOuts(_, _, _, _, _, _, _)
FaceOuts(a, d, path, geom, vnp, sloppy, lib) ==
    IF d = 0 THEN [out |-> triangulate_one_face(a, path, geom, vnp, sloppy, lib), path |-> path]
    ELSE [i \in DOMAIN a |-> FaceOuts(a[i], d - 1, Append(path, i), geom, vnp, sloppy, lib)]

\* the faces in the order of the loops
RECURSIVE FlatOuts(_, _)
FlatOuts(outs, d) ==
    IF d = 0 THEN << outs >> ELSE Concat([i \in DOMAIN outs |-> FlatOuts(outs[i], d - 1)])

\* tlist1: one face of one ring per triangle, under each shell and solid
RECURSIVE TriangleLists(_, _)
TriangleLists(outs, d) ==
    IF d = 1
    THEN Concat([i \in DOMAIN outs |-> [k \in DOMAIN outs[i].out.tris |-> << outs[i].out.tris[k] >>]])
    ELSE [i \in DOMAIN outs |-> TriangleLists(outs[i], d - 1)]

NullBranch == [null |-> TRUE, v |-> << >>]

Branch(v) == [null |-> FALSE, v |-> v]

RECURSIVE EmptyBranches(_, _)
EmptyBranches(outs, d) ==
    IF d = 1 THEN Branch(<< >>)
    ELSE Branch([i \in DOMAIN outs |-> EmptyBranches(outs[i], d - 1)])

\* slist: None replaces a list at the first triangle under a None branch
\* (lines 1936-1938, 2022-2027, 2137-2151); a list that stays gets one entry
\* per triangle (d = 1) or one list per shell or solid
RECURSIVE SemanticsLists(_, _, _)
\* mutant: the values are left as they were, one per face
SemanticsListsKept(vals, outs, d) == vals

SemanticsLists(vals, outs, d) ==
    IF vals.null
    THEN LET flat == FlatOuts(outs, d)
         IN  IF \E k \in DOMAIN flat : Len(flat[k].out.tris) > 0
             THEN NullBranch ELSE EmptyBranches(outs, d)
    ELSE IF d = 1
    THEN Branch(Concat([i \in DOMAIN outs |-> [k \in 1..outs[i].out.n |-> outs[i].out.sem]]))
    ELSE Branch([i \in DOMAIN outs |->
                    IF i \in DOMAIN vals.v THEN SemanticsLists(vals.v[i], outs[i], d - 1)
                    ELSE EmptyBranches(outs[i], d - 1)])

\* mlist[m] of a theme with "values": one entry per triangle; the list of a
\* shell or a solid is appended only when it is not empty (lines 2062, 2191, 2202)
RECURSIVE MaterialLists(_, _, _)
MaterialLists(outs, d, m) ==
    IF d = 1
    THEN Concat([i \in DOMAIN outs |-> [k \in 1..outs[i].out.n |-> outs[i].out.mat[m]]])
    ELSE SelectSeq([i \in DOMAIN outs |-> MaterialLists(outs[i], d - 1, m)],
                   LAMBDA ls : Len(ls) # 0)

\* texlist[m]: one entry per triangle; every shell's and solid's list is appended
RECURSIVE TextureLists(_, _, _)
TextureLists(outs, d, m) ==
    IF d = 1 THEN Concat([i \in DOMAIN outs |-> outs[i].out.tex[m]])
    ELSE [i \in DOMAIN outs |-> TextureLists(outs[i], d - 1, m)]

RECURSIVE PathLE(_, _)
PathLE(p, q) ==
    \/ p = << >>
    \/ p[1] < q[1]
    \/ p[1] = q[1] /\ PathLE(Tail(p), Tail(q))

\* "boundaries" when the loop raises at the face of path stop: the faces up to
\* it are as triangulate_face left them
RECURSIVE BoundariesAt(_, _, _, _)
BoundariesAt(a, outs, d, stop) ==
    IF d = 0 THEN (IF PathLE(outs.path, stop) THEN outs.out.face ELSE a)
    ELSE [i \in DOMAIN a |-> BoundariesAt(a[i], outs[i], d - 1, stop)]

\* geom after the loops over its faces (outs; flat is outs in loop order):
\* geom as the loop body leaves it, whether it raised, and the calls of
\* triangulate_face it made
triangulated_geom(geom, d, outs, flat) ==
    LET raising == { k \in DOMAIN flat : flat[k].out.raised }
        first == CHOOSE k \in raising : \A l \in raising : k <= l
    IN  IF raising # { }
        THEN [geom |-> [geom EXCEPT !.boundaries = BoundariesAt(geom.boundaries, outs, d, flat[first].path)],
              raised |-> TRUE,
              calls |-> Concat([k \in 1..first |-> flat[k].out.call])]
        ELSE [geom |-> [geom EXCEPT
                  !.boundaries = TriangleLists(outs, d),
                  !.semantics = IF geom.semantics = << >> THEN << >>
                                ELSE << SemanticsLists(geom.semantics[1], outs, d) >>,
                  !.material = [m \in DOMAIN geom.material |->
                                  IF geom.material[m].kind = "values"
                                  THEN [geom.material[m] EXCEPT !.v = MaterialLists(outs, d, m)]
                                  ELSE geom.material[m]],
                  !.texture = [m \in DOMAIN geom.texture |->
                                  [geom.texture[m] EXCEPT !.values = << TextureLists(outs, d, m) >>]]],
              raised |-> FALSE,
              calls |-> Concat([k \in DOMAIN flat |-> flat[k].out.call])]

\* lines 1870-2219 for one geometry
triangulate_geom(geom, vnp, sloppy, lib) ==
    IF ~IsTriangulated(geom.type) THEN [geom |-> geom, raised |-> FALSE, calls |-> << >>]
    ELSE LET Flat(outs) == triangulated_geom(geom, FaceDepth(geom.type), outs,
                                             FlatOuts(outs, FaceDepth(geom.type)))
         IN  Flat(FaceOuts(geom.boundaries, FaceDepth(geom.type), << >>, geom, vnp, sloppy, lib))

\* the dataset when res is what the loop body does for each geometry: the
\* geometries before the first that raises are replaced, that one is left as the
\* exception found it, the others untouched
triangulated(j, res) ==
    LET raising == { p \in UNION { { << oi, gi >> : gi \in DOMAIN res[oi] } : oi \in DOMAIN res } :
                        res[p[1]][p[2]].raised }
        first == CHOOSE p \in raising : \A q \in raising : PathLE(p, q)
        reached(oi, gi) == raising = { } \/ PathLE(<< oi, gi >>, first)
    IN  [j |-> [j EXCEPT !.CityObjects =
                  [oi \in DOMAIN j.CityObjects |->
                      IF j.CityObjects[oi].geometry = << >> THEN j.CityObjects[oi]
                      ELSE [j.CityObjects[oi] EXCEPT !.geometry =
                              << [gi \in DOMAIN res[oi] |->
                                    IF reached(oi, gi) THEN res[oi][gi].geom
                                    ELSE ObjGeoms(j.CityObjects[oi])[gi]] >>]]],
         raised |-> raising # { },
         calls |-> Concat([oi \in DOMAIN res |->
                     Concat([gi \in DOMAIN res[oi] |->
                        IF reached(oi, gi) THEN res[oi][gi].calls ELSE << >>])])]

\* triangulate(sloppy), lines 1866-2219
triangulate(j, sloppy, lib) ==
    triangulated(j, [oi \in DOMAIN j.CityObjects |->
                       [gi \in DOMAIN ObjGeoms(j.CityObjects[oi]) |->
                           triangulate_geom(ObjGeoms(j.CityObjects[oi])[gi], j.vertices, sloppy, lib)]])

\* ------------------------------------------------------------ the datasets
Geometry(type, lod, boundaries) ==
    [type |-> type, lod |-> lod, boundaries |-> boundaries,
     semantics |-> << >>, material |-> << >>, texture |-> << >>, template |-> None]

\* material: a sequence of themes [theme, kind ("value" or "values"), v];
\* texture: a sequence of themes [theme, values] with values absent or present
WithAppearance(g, material, texture) == [g EXCEPT !.material = material, !.texture = texture]

CityObject(id, attributes, geometry) ==
    [id |-> id, attributes |-> attributes, geometry |-> geometry]

\* CityJSON(j=...): the members of self.j the operations read
CityJSON(vertices, transform, objects) ==
    [vertices |-> vertices, transform |-> transform, CityObjects |-> objects,
     materials |-> << >>, textures |-> << >>, vertices_texture |-> << >>,
     templates |-> << >>]

EmptyCM == CityJSON(<< >>, << >>, << >>)

VARIABLES
    cm,     \* self.j, the dataset operated on
    pre,    \* self.j as it was before the last operation
    last    \* the last operation: its name, its arguments and what it returned

vars == << cm, pre, last >>

\* the record of a call: `removed` is the count and `ok` the flag it returned,
\* `raised` tells that it ended in an exception, `before` is the operation before
\* it, `arg` the dataset passed to it, `mid` self.j at line 1227 of merge and
\* `after` the dataset passed to merge as merge leaves it;
\* of triangulate, `sloppy` is the argument, `lib` what the triangulation library
\* returns for each face and `calls` the calls of triangulate_face it made;
\* of upgrade_version, `newversion` is the argument, `reasons` the text it
\* returned with `ok`, and `steps` the versions whose migration step it ran
Called(op, removed, ok, digits, before) ==
    [op |-> op, removed |-> removed, ok |-> ok, digits |-> digits, before |-> before,
     raised |-> FALSE, arg |-> << >>, mid |-> << >>, after |-> << >>,
     calls |-> << >>, sloppy |-> FALSE, lib |-> << >>,
     newversion |-> "", reasons |-> << >>, steps |-> << >>]

\* ------------------------------------------------- the vertex pool machine
\* largest number of vertices of an initial pool
MaxVerts == 3

Digits == 0..MaxDigits

PoolCoords ==
    { << PyInt(0), PyInt(0), PyFloat(0) >>,
      << PyFloat(0), PyInt(0), PyFloat(0) >>,
      << PyFloat(Unit \div 2), PyInt(0), PyFloat(0) >>,
      << PyFloat((3 * Unit) \div 4), PyFloat(Unit + 1), PyFloat(0) >> }

\* the pools of a file that has a transform hold integers
QuantCoords ==
    { << PyInt(0), PyInt(0), PyInt(0) >>,
      << PyInt(1), PyInt(2), PyInt(0) >> }

Origins == { << PyFloat(Unit \div 2), PyInt(0), PyFloat(0 - Unit) >> }

Pools(coords) == UNION { [1..n -> coords] : n \in 1..MaxVerts }

\* one object with a surface and a point geometry over a pool of n vertices,
\* and one object without geometry
PoolObjects(n) ==
    { << CityObject("a", << >>,
                    << << Geometry("MultiSurface", "1", << << ring >> >>),
                          Geometry("MultiPoint", "0", << n - 1 >>) >> >>),
         CityObject("b", << >>, << >>) >> :
      ring \in [1..2 -> 0..(n - 1)] }

PoolDatasets ==
    UNION { { CityJSON(vs, << >>, objs) : objs \in PoolObjects(Len(vs)) } :
            vs \in Pools(PoolCoords) } \cup
    UNION { { CityJSON(vs, << [scale |-> k, translate |-> o] >>, objs) :
                objs \in PoolObjects(Len(vs)), k \in Digits, o \in Origins } :
            vs \in Pools(QuantCoords) }

\* every boundary leaf of j is a position of its pool
LeavesInRange(j) ==
    LET gs == AllGeoms(j)
    IN  \A i \in DOMAIN gs :
          \A x \in Range(Leaves(gs[i].boundaries, Depth(gs[i].type))) :
              x >= 0 /\ x < Len(j.vertices)

InitPool ==
    /\ cm \in PoolDatasets
    /\ pre = cm
    /\ last = Called("load", 0, TRUE, 0, "none")

RemoveDuplicateVertices ==
    /\ LET r == remove_duplicate_vertices(cm)
       IN  /\ cm' = r.j
           /\ last' = Called("remove_duplicate_vertices", r.ret, TRUE, 0, last.op)
    /\ pre' = cm

RemoveOrphanVertices ==
    /\ LET r == remove_orphan_vertices(cm)
       IN  /\ cm' = r.j
           /\ last' = Called("remove_orphan_vertices", r.ret, TRUE, 0, last.op)
    /\ pre' = cm

Compress ==
    /\ \E k \in Digits, t \in { << >> } \cup { << o >> : o \in Origins } :
         LET r == compress(cm, k, t)
         IN  /\ cm' = r.j
             /\ last' = [Called("compress", 0, r.ret, k, last.op) EXCEPT !.arg = t]
    /\ pre' = cm

Decompress ==
    /\ LET r == decompress(cm)
       IN  /\ cm' = r.j
           /\ last' = Called("decompress", 0, r.ret, 0, last.op)
    /\ pre' = cm

NextPool ==
    \/ RemoveDuplicateVertices
    \/ RemoveOrphanVertices
    \/ Compress
    \/ Decompress

SpecPool == InitPool /\ [][NextPool]_vars

\* ------------------------------------------------- vertex pool: properties
\* the boundary leaves of every geometry of j, in iteration order
AllLeaves(j) ==
    LET gs == AllGeoms(j)
    IN  Concat([i \in DOMAIN gs |-> Leaves(gs[i].boundaries, Depth(gs[i].type))])

\* the coordinate triple each boundary leaf resolves to
Resolved(j) ==
    LET ls == AllLeaves(j)
    IN  [p \in DOMAIN ls |-> j.vertices[ls[p] + 1]]

NoDuplicates(vertices) ==
    \A a, b \in DOMAIN vertices : a # b => vertices[a] # vertices[b]

\* the value of a triple, whatever the type of its numbers
Value(v) == [i \in DOMAIN v |-> v[i].v]

\* C2 (as claimed): remove_duplicate_vertices leaves no two equal triples in the
\* pool, keeps one entry per distinct triple of the old pool in order of first
\* occurrence, and returns old length - new length.
C2_DedupExact ==
    last.op = "remove_duplicate_vertices" =>
        /\ NoDuplicates(cm.vertices)
        /\ [i \in DOMAIN cm.vertices |-> Value(cm.vertices[i])]
             = FirstSeen([i \in DOMAIN pre.vertices |-> Value(pre.vertices[i])])
        /\ last.removed = Len(pre.vertices) - Len(cm.vertices)

\* C3 (as claimed): a second remove_duplicate_vertices right after a first one
\* returns 0 and leaves pool and boundaries as they were.
C3_DedupIdempotent ==
    (last.op = "remove_duplicate_vertices" /\ last.before = "remove_duplicate_vertices") =>
        /\ last.removed = 0
        /\ cm.vertices = pre.vertices
        /\ cm.CityObjects = pre.CityObjects

Referenced(j) == Range(AllLeaves(j))

\* C4: after remove_orphan_vertices on a dataset whose leaves were in range,
\* every position of the pool is referenced by a boundary leaf, every leaf is
\* in range, and the value returned is the number of vertices removed (the number
\* of positions of the old pool that no leaf referenced).
C4_OrphansCompacted ==
    (last.op = "remove_orphan_vertices" /\ LeavesInRange(pre)) =>
        /\ \A n \in 0..(Len(cm.vertices) - 1) : n \in Referenced(cm)
        /\ LeavesInRange(cm)
        /\ last.removed = Len(pre.vertices) - Len(cm.vertices)
        /\ last.removed = Cardinality((0..(Len(pre.vertices) - 1)) \ Referenced(pre))

\* an orphan was removed and a leaf was renumbered
C4_Witness ==
    /\ last.op = "remove_orphan_vertices"
    /\ LeavesInRange(pre)
    /\ last.removed > 0
    /\ AllLeaves(cm) # AllLeaves(pre)

\* each leaf of `after` resolves within 0.5 * 10^-k of what it resolves to in `before`
WithinHalfUnit(before, after, k) ==
    LET b == Resolved(before)
        a == Resolved(after)
    IN  /\ DOMAIN b = DOMAIN a
        /\ \A p \in DOMAIN b : \A i \in 1..3 :
              2 * Abs(a[p][i].v - b[p][i].v) <= Pow10(MaxDigits - k)

\* C5: whenever compress(k) has returned True on an untransformed dataset, the
\* dataset decompress() then yields resolves every boundary leaf to within
\* 0.5 * 10^-k, per axis, of the coordinate it resolved to before compress.
C5_RoundTrip ==
    (last.op = "compress" /\ last.ok) =>
        /\ decompress(cm).ret
        /\ WithinHalfUnit(pre, decompress(cm).j, last.digits)

\* a compress that merged two vertices and after which a leaf decompresses to
\* another coordinate than it had
C5_Witness ==
    /\ last.op = "compress" /\ last.ok
    /\ Len(cm.vertices) < Len(pre.vertices)
    /\ \E p \in DOMAIN Resolved(pre) :
          Value(Resolved(decompress(cm).j)[p]) # Value(Resolved(pre)[p])

\* C11: compress on a dataset that has a transform returns False and leaves the
\* vertices, the transform and the geometries as they were; decompress on a
\* dataset without a transform returns False and leaves them as they were;
\* neither raises.
C11_QuantizationGuards ==
    /\ (last.op = "compress" /\ pre.transform # << >>) =>
            ~last.ok /\ ~last.raised /\ cm = pre
    /\ (last.op = "decompress" /\ pre.transform = << >>) =>
            ~last.ok /\ ~last.raised /\ cm = pre

\* compress was refused on a dataset that compress had quantized, with other
\* digits than it has
C11_Witness ==
    /\ last.op = "compress"
    /\ last.before = "compress"
    /\ pre.transform # << >>
    /\ pre.transform[1].scale # last.digits

\* a value of the pool on axis i that no value of the pool is below
IsMinimum(vertices, i, x) ==
    /\ \E n \in DOMAIN vertices : vertices[n][i].v = x
    /\ \A n \in DOMAIN vertices : vertices[n][i].v >= x

\* q is an integer nearest to u * 10^k (u in units, a tie goes either way)
IsRounded(q, u, k) == 2 * Abs(u * Pow10(k) - q * Unit) <= Unit

\* C12: compress(k, translate) that returned True on an untransformed dataset
\* set the transform to scale 10^-k and translate = origin, the vector supplied
\* or else the per-axis minimum of the pool; every vertex of the pool is a triple
\* of integers, every boundary leaf resolves to round((coord - origin) * 10^k) of
\* the coordinate it resolved to before; and decompress takes the transform away.
C12_Quantized ==
    (last.op = "compress" /\ last.ok) =>
        /\ pre.transform = << >>
        /\ cm.transform # << >>
        /\ cm.transform[1].scale = last.digits
        /\ \A i \in 1..3 :
              IF last.arg # << >> THEN cm.transform[1].translate[i].v = last.arg[1][i].v
              ELSE IsMinimum(pre.vertices, i, cm.transform[1].translate[i].v)
        /\ \A n \in DOMAIN cm.vertices : \A i \in 1..3 :
              ~cm.vertices[n][i].fl /\ cm.vertices[n][i].v % Unit = 0
        /\ DOMAIN Resolved(cm) = DOMAIN Resolved(pre)
        /\ \A p \in DOMAIN Resolved(pre) : \A i \in 1..3 :
              IsRounded(Resolved(cm)[p][i].v \div Unit,
                        Resolved(pre)[p][i].v - cm.transform[1].translate[i].v,
                        last.digits)
        /\ decompress(cm).ret
        /\ decompress(cm).j.transform = << >>

\* compress without a translate took a minimum that is not the first vertex's
\* and rounded a coordinate that was not a multiple of 10^-k
C12_Witness ==
    /\ last.op = "compress" /\ last.ok
    /\ last.arg = << >>
    /\ \E i \in 1..3 : cm.transform[1].translate[i].v # pre.vertices[1][i].v
    /\ \E p \in DOMAIN Resolved(pre) : \E i \in 1..3 :
          (Resolved(pre)[p][i].v - cm.transform[1].translate[i].v) * Pow10(last.digits)
              # Resolved(cm)[p][i].v

\* ----------------------------------------------------- the splice machine
\* largest pool and largest appearance or template table a splice may build
MaxPool == 8
MaxTable == 4

QV(x, y) == << PyInt(x), PyInt(y), PyInt(0) >>

ZeroOrigin == << PyInt(0), PyInt(0), PyInt(0) >>

\* dataset A: 5 vertices, object "a" with a surface of two faces and a point
SurfaceA(app) ==
    WithAppearance(
        Geometry("MultiSurface", "1", << << << 0, 1, 2 >> >>, << << 0, 2, 3 >> >> >>),
        CASE app = "none" -> << >>
          [] app = "value" -> << [theme |-> "m", kind |-> "value", v |-> 1] >>
          [] app = "values" -> << [theme |-> "m", kind |-> "values", v |-> << 1, None >>] >>,
        IF app = "none" THEN << >>
        ELSE << [theme |-> "t",
                 values |-> << << << << 0, 0, 1, 3 >> >>, << << None >> >> >> >>] >>)

InstanceA == [Geometry("GeometryInstance", NoLod, << 4 >>) EXCEPT !.template = 0]

TemplatesA ==
    [templates |-> << Geometry("MultiPoint", "1", << 0 >>) >>,
     vertices_templates |-> << QV(0, 0) >>]

DatasetA(app, tmpl, shape, k) ==
    [vertices |-> << QV(0, 0), QV(1, 0), QV(1, 1), QV(0, 1), QV(2, 2) >>,
     transform |-> << [scale |-> k, translate |-> ZeroOrigin] >>,
     CityObjects |->
        << CityObject("a",
                      IF shape = "noattributes" THEN << >> ELSE << [h |-> 1] >>,
                      IF shape = "nogeometry" THEN << >>
                      ELSE << << SurfaceA(app), Geometry("MultiPoint", "0", << 4 >>) >>
                              \o (IF tmpl THEN << InstanceA >> ELSE << >>) >>),
           CityObject("c", << >>, << << Geometry("MultiPoint", "0", << 4 >>) >> >>) >>,
     materials |-> IF app = "none" THEN << >> ELSE << << "ma0", "ma1" >> >>,
     textures |-> IF app = "none" THEN << >> ELSE << << "ta0" >> >>,
     vertices_texture |-> IF app = "none" THEN << >> ELSE << << "ua0", "ua1", "ua2", "ua3" >> >>,
     templates |-> IF tmpl THEN << TemplatesA >> ELSE << >>]

AppsA == { "none", "value", "values" }
Shapes == { "full", "noattributes" }

\* dataset B: 3 vertices, an object (id "a" or "b") with one triangle and, at
\* a level of detail that A does not have, the three points
SurfaceB(lod, app) ==
    WithAppearance(
        Geometry("MultiSurface", lod, << << << 0, 1, 2 >> >> >>),
        CASE app = "value" -> << [theme |-> "m", kind |-> "value", v |-> 0] >>
          [] app = "values" -> << [theme |-> "m", kind |-> "values", v |-> << 0 >>] >>
          [] OTHER -> << >>,
        CASE app = "none" -> << >>
          [] app = "novalues" -> << [theme |-> "t", values |-> << >>] >>
          [] app = "value" -> << [theme |-> "t", values |-> << << << << None >> >> >> >>] >>
          [] OTHER -> << [theme |-> "t", values |-> << << << << 0, 2, 1, 0 >> >> >> >>] >>)

InstanceB == [Geometry("GeometryInstance", NoLod, << 2 >>) EXCEPT !.template = 0]

TemplatesB ==
    [templates |-> << Geometry("MultiSurface", "1", << << << 0, 1, 0 >> >> >>) >>,
     vertices_templates |-> << QV(0, 0), QV(1, 1) >>]

\* a second object of B, textured, for the datasets of which the first object
\* has a texture theme without values
OtherB ==
    CityObject("d", << >>,
               << << WithAppearance(Geometry("MultiSurface", "1", << << << 0, 1, 2 >> >> >>), << >>,
                                    << [theme |-> "t", values |-> << << << << 0, 2, 1, 0 >> >> >> >>] >>) >> >>)

DatasetB(id, lod, app, tmpl, k) ==
    [vertices |-> << QV(0, 0), QV(3, 0), QV(3, 3) >>,
     transform |-> << [scale |-> k, translate |-> ZeroOrigin] >>,
     CityObjects |->
        << CityObject(id, << [h |-> 2, w |-> 3] >>,
                      << << SurfaceB(lod, app), Geometry("MultiPoint", "3", << 0, 1, 2 >>) >>
                         \o (IF tmpl THEN << InstanceB >> ELSE << >>) >>) >>
        \o (IF app = "novalues" THEN << OtherB >> ELSE << >>),
     materials |-> IF app \in { "value", "values" } THEN << << "mb0" >> >> ELSE << >>,
     textures |-> IF app = "none" THEN << >> ELSE << << "tb0" >> >>,
     vertices_texture |-> IF app = "none" THEN << >> ELSE << << "ub0", "ub1", "ub2" >> >>,
     templates |-> IF tmpl THEN << TemplatesB >> ELSE << >>]

AppsB == { "none", "value", "values", "novalues" }

\* a CityJSONFeature: no transform, no templates
Feature(id, lod, app) == [DatasetB(id, lod, app, FALSE, 0) EXCEPT !.transform = << >>]

Ids == { "a", "b" }
Lods == { "1", "2" }

OptLen(opt) == IF opt = << >> THEN 0 ELSE Len(opt[1])

TemplateCount(j) == IF j.templates = << >> THEN 0 ELSE Len(j.templates[1].templates)

\* the splice of b into j stays within the bounds of the model
Fits(j, b) ==
    /\ Len(j.vertices) + Len(b.vertices) <= MaxPool
    /\ OptLen(j.materials) + OptLen(b.materials) <= MaxTable
    /\ OptLen(j.textures) + OptLen(b.textures) <= MaxTable
    /\ TemplateCount(j) + TemplateCount(b) <= MaxTable

InitSplice ==
    /\ \E app \in AppsA, tmpl \in BOOLEAN, shape \in Shapes, k \in Digits :
           cm = DatasetA(app, tmpl, shape, k)
    /\ pre = cm
    /\ last = Called("load", 0, TRUE, 0, "none")

Merge ==
    \E id \in Ids, lod \in Lods, app \in AppsB, tmpl \in BOOLEAN, k \in Digits :
        LET b == DatasetB(id, lod, app, tmpl, k)
        IN  /\ Fits(cm, b)
            /\ pre' = cm
            /\ \E r \in { merge(cm, << b >>) } :
                  /\ cm' = r.j
                  /\ last' = [Called("merge", 0, TRUE, 0, last.op) EXCEPT
                                 !.raised = r.raised, !.arg = << b >>, !.mid = << r.mid >>,
                                 !.after = << merged_dataset(b, cm, r.j) >>]

AddCityJSONFeature ==
    \E id \in Ids, lod \in Lods, app \in AppsB :
        LET f == Feature(id, lod, app)
        IN  /\ Fits(cm, f)
            /\ pre' = cm
            /\ \E r \in { add_cityjsonfeature(cm, f) } :
                  /\ cm' = r.j
                  /\ last' = [Called("add_cityjsonfeature", 0, TRUE, 0, last.op) EXCEPT
                                 !.raised = r.raised, !.arg = << f >>]

NextSplice ==
    \/ Merge
    \/ AddCityJSONFeature

SpecSplice == InitSplice /\ [][NextSplice]_vars

\* ------------------------------------------------- the triangulation machine
Pt(x, y, z) == << PyInt(x), PyInt(y), PyInt(z) >>

\* a square (0..3) and, inside it, a smaller square (4..7), both in the plane
\* z = 0; the vertices 0, 4, 6, 2 are on one line
SquareVertices ==
    << Pt(0, 0, 0), Pt(4, 0, 0), Pt(4, 4, 0), Pt(0, 4, 0),
       Pt(1, 1, 0), Pt(1, 3, 0), Pt(3, 3, 0), Pt(3, 1, 0) >>

FaceKinds == { "quad", "holed", "ragged", "dup", "aab", "ab", "abab", "line", "mirror" }

\* the second face of the geometry; the faces with a zero normal come with a
\* face of two vertices
SecondKinds(k1) == IF k1 \in { "line", "mirror" } THEN { "ab" } ELSE { "quad", "holed", "ab" }

FaceOf(kind) ==
    CASE kind = "quad" -> << << 4, 5, 6, 7 >> >>
      [] kind = "holed" -> << << 0, 1, 2, 3 >>, << 4, 5, 6, 7 >> >>
      [] kind = "ragged" -> << << 0, 1, 2, 3 >>, << 4, 5, 6 >> >>
      [] kind = "dup" -> << << 0, 1, 2, 2 >> >>
      [] kind = "aab" -> << << 0, 0, 1 >> >>
      [] kind = "ab" -> << << 0, 1 >> >>
      [] kind = "abab" -> << << 0, 1, 0, 1 >> >>
      [] kind = "line" -> << << 0, 4, 6, 2 >> >>
      [] kind = "mirror" -> << << 0, 1, 2, 3 >>, << 3, 2, 1, 0 >> >>

Triangle012 == << << 0, 1, 2 >> >>

\* the texture of a face: texture 0, and for every vertex the uv vertex of the
\* same number
TexOf(face) == [ii \in DOMAIN face |-> << 0 >> \o face[ii]]

\* a second theme for the texture values a (depth d above the lists of the
\* rings): texture 1 and for vertex v the uv vertex 7 - v; null for the ring of
\* the triangle 0, 1, 2
RECURSIVE OtherTexOf(_, _)
OtherTexOf(a, d) ==
    IF d = 0
    THEN (IF SubSeq(a, 2, Len(a)) = << 0, 1, 2 >> THEN << None >>
          ELSE << 1 >> \o [k \in 1..(Len(a) - 1) |-> 7 - a[k + 1]])
    ELSE [i \in DOMAIN a |-> OtherTexOf(a[i], d - 1)]

AttrKinds == { "none", "all", "null", "partnull" }

WithAttributes(g, attr, semantics, partnull, material, texture) ==
    IF attr = "none" THEN g
    ELSE [g EXCEPT
            !.semantics = << IF attr = "null" THEN NullBranch
                             ELSE IF attr = "partnull" THEN partnull ELSE semantics >>,
            !.material = << [theme |-> "m", kind |-> "values", v |-> material],
                            [theme |-> "v", kind |-> "value", v |-> 1] >>,
            !.texture = IF attr = "all"
                        THEN << [theme |-> "t", values |-> << texture >>],
                                [theme |-> "u", values |-> << OtherTexOf(texture, Depth(g.type) - 1) >>] >>
                        ELSE << >>]

SurfaceOf(f1, f2, attr) ==
    WithAttributes(Geometry("MultiSurface", "1", << f1, f2 >>), attr,
                   Branch(<< 0, 1 >>), NullBranch,
                   << 0, 1 >>,
                   << TexOf(f1), TexOf(f2) >>)

SolidOf(f1, f2, attr) ==
    WithAttributes(Geometry("Solid", "1", << << f1, Triangle012 >>, << f2 >> >>), attr,
                   Branch(<< Branch(<< 0, 1 >>), Branch(<< 2 >>) >>),
                   Branch(<< Branch(<< 0, 1 >>), NullBranch >>),
                   << << 0, 1 >>, << 1 >> >>,
                   << << TexOf(f1), TexOf(Triangle012) >>, << TexOf(f2) >> >>)

MultiSolidOf(f1, f2, attr) ==
    WithAttributes(
        Geometry("MultiSolid", "1", << << << f1 >>, << f2 >> >>, << << Triangle012 >> >> >>), attr,
        Branch(<< Branch(<< Branch(<< 0 >>), Branch(<< 1 >>) >>), Branch(<< Branch(<< 2 >>) >>) >>),
        Branch(<< Branch(<< Branch(<< 0 >>), NullBranch >>), NullBranch >>),
        << << << 0 >>, << 1 >> >>, << << 1 >> >> >>,
        << << << TexOf(f1) >>, << TexOf(f2) >> >>, << << TexOf(Triangle012) >> >> >>)

GeomTypes == { "MultiSurface", "Solid", "MultiSolid" }

GeometryOf(type, f1, f2, attr) ==
    CASE type = "MultiSurface" -> SurfaceOf(f1, f2, attr)
      [] type = "Solid" -> SolidOf(f1, f2, attr)
      [] type = "MultiSolid" -> MultiSolidOf(f1, f2, attr)

\* object "a" has the geometry, object "b" the triangle 4, 5, 6
SurfaceDataset(type, f1, f2, attr) ==
    [CityJSON(SquareVertices, << >>,
              << CityObject("a", << >>, << << GeometryOf(type, f1, f2, attr) >> >>),
                 CityObject("b", << >>,
                            << << Geometry("MultiSurface", "1", << << << 4, 5, 6 >> >> >>) >> >>) >>)
     EXCEPT !.materials = IF attr = "none" THEN << >> ELSE << << "m0", "m1" >> >>,
            !.textures = IF attr = "all" THEN << << "t0", "t1" >> >> ELSE << >>,
            !.vertices_texture =
                IF attr = "all"
                THEN << << "u0", "u1", "u2", "u3", "u4", "u5", "u6", "u7" >> >> ELSE << >>]

\* the faces of dataset j, and those for which triangulate gets to the library
Faces(j) ==
    UNION { Range(Leaves(AllGeoms(j)[i].boundaries, FaceDepth(AllGeoms(j)[i].type))) :
              i \in { k \in DOMAIN AllGeoms(j) : IsTriangulated(AllGeoms(j)[k].type) } }

LibraryFaces(j, sloppy) == { f \in Faces(j) : ReachesLibrary(f, j.vertices, sloppy) }

AllKinds == { "fan", "none", "steiner", "nokey", "raise", "holefail", "handlerfail" }

\* the library as a function of its input
Libraries(j, sloppy) ==
    { lib \in [LibraryFaces(j, sloppy) -> AllKinds] :
        \A f \in DOMAIN lib : lib[f] \in Kinds(f, sloppy) }

InitTri ==
    /\ \E type \in GeomTypes, k1 \in FaceKinds, attr \in AttrKinds : \E k2 \in SecondKinds(k1) :
          cm = SurfaceDataset(type, FaceOf(k1), FaceOf(k2), attr)
    /\ pre = cm
    /\ last = Called("load", 0, TRUE, 0, "none")

Triangulate ==
    \E sloppy \in BOOLEAN :
        \E lib \in Libraries(cm, sloppy) :
            \E r \in { triangulate(cm, sloppy, lib) } :
                /\ cm' = r.j
                /\ pre' = cm
                /\ last' = [Called("triangulate", 0, TRUE, 0, last.op) EXCEPT
                               !.raised = r.raised, !.calls = r.calls,
                               !.sloppy = sloppy, !.lib = lib]

NextTri == Triangulate

SpecTri == InitTri /\ [][NextTri]_vars

\* ----------------------------------------------------- properties of a splice
Spliced == last.op \in { "merge", "add_cityjsonfeature" } /\ ~last.raised

\* the target right after the splice: self.j at line 1227 of merge, self.j at
\* the return of add_cityjsonfeature
SpliceResult == IF last.op = "merge" THEN last.mid[1] ELSE cm

\* the vertices the code concatenates: merge decompresses both datasets first
SpliceVertices(j) == IF last.op = "merge" THEN decompress(j).j.vertices ELSE j.vertices

LodsOf(o) == { ObjGeoms(o)[i].lod : i \in DOMAIN ObjGeoms(o) }

\* the geometries of object bo of B that the splice brings into A
BroughtFrom(bo) ==
    LET i == ObjIndex(pre.CityObjects, bo.id)
    IN  IF last.op = "add_cityjsonfeature" \/ i = 0 THEN ObjGeoms(bo)
        ELSE IF pre.CityObjects[i].geometry = << >> THEN << >>
        ELSE SelectSeq(ObjGeoms(bo), LAMBDA g : g.lod \notin LodsOf(pre.CityObjects[i]))

\* the same geometries where they are in dataset j after the splice: the last
\* ones of the object with the same id
BroughtInto(j, bo) ==
    LET gs == ObjGeoms(j.CityObjects[ObjIndex(j.CityObjects, bo.id)])
        n == Len(BroughtFrom(bo))
    IN  SubSeq(gs, Len(gs) - n + 1, Len(gs))

\* geometry new is geometry old with every vertex index moved by offset, and
\* every index of new names in `vertices` the vertex that old names in B
MovedBy(new, old, offset, vertices, bvertices) ==
    LET ln == Leaves(new.boundaries, Depth(new.type))
        lo == Leaves(old.boundaries, Depth(old.type))
    IN  /\ new.type = old.type
        /\ new.lod = old.lod
        /\ Len(ln) = Len(lo)
        /\ \A p \in DOMAIN lo :
              /\ ln[p] = lo[p] + offset
              /\ ln[p] < Len(vertices)
              /\ vertices[ln[p] + 1] = bvertices[lo[p] + 1]

\* geometry new names in `vertices` the coordinates that old names in B
SameCoordinates(new, old, vertices, bvertices) ==
    LET ln == Leaves(new.boundaries, Depth(new.type))
        lo == Leaves(old.boundaries, Depth(old.type))
    IN  /\ Len(ln) = Len(lo)
        /\ \A p \in DOMAIN lo :
              /\ ln[p] < Len(vertices)
              /\ Value(vertices[ln[p] + 1]) = Value(bvertices[lo[p] + 1])

\* C6: when B is spliced into A by merge or add_cityjsonfeature, B's vertices
\* are appended after A's, every vertex index i of every geometry brought in
\* from B is i + len(A.vertices) and names the coordinate it named in B; after
\* the cleanup of merge the index still names that coordinate
C6_VertexOffset ==
    Spliced =>
        LET b == last.arg[1]
            s == SpliceResult
            offset == Len(pre.vertices)
            bv == SpliceVertices(b)
        IN  /\ s.vertices = SpliceVertices(pre) \o bv
            /\ \A oi \in DOMAIN b.CityObjects :
                  LET old == BroughtFrom(b.CityObjects[oi])
                      new == BroughtInto(s, b.CityObjects[oi])
                      end == BroughtInto(cm, b.CityObjects[oi])
                      endv == decompress(cm).j.vertices
                  IN  /\ Len(new) = Len(old)
                      /\ \A gi \in DOMAIN old : MovedBy(new[gi], old[gi], offset, s.vertices, bv)
                      /\ last.op = "merge" =>
                            \A gi \in DOMAIN old : SameCoordinates(end[gi], old[gi], endv, bv)

HasFace(j, face) ==
    \E i \in DOMAIN AllGeoms(j) :
        /\ AllGeoms(j)[i].type = "MultiSurface"
        /\ \E f \in DOMAIN AllGeoms(j)[i].boundaries : AllGeoms(j)[i].boundaries[f] = << face >>

\* B with 3 vertices and face [0,1,2] was merged into A with 5 vertices: the
\* face is [5,6,7] and the pool has 8 vertices
C6_Witness ==
    /\ Spliced
    /\ last.op = "merge"
    /\ Len(pre.vertices) = 5
    /\ HasFace(last.arg[1], << 0, 1, 2 >>)
    /\ HasFace(SpliceResult, << 5, 6, 7 >>)
    /\ Len(SpliceResult.vertices) = 8

\* new is the texture array old with T added to the first element of every
\* innermost list and V to the others, None kept, the nesting unchanged
RECURSIVE TextureMoved(_, _, _, _, _)
TextureMoved(new, old, d, T, V) ==
    /\ DOMAIN new = DOMAIN old
    /\ \A i \in DOMAIN old :
          IF d > 1 THEN TextureMoved(new[i], old[i], d - 1, T, V)
          ELSE IF old[i] = None THEN new[i] = None
          ELSE new[i] = old[i] + (IF i = 1 THEN T ELSE V)

ThemesMoved(new, old, T, V) ==
    /\ DOMAIN new.texture = DOMAIN old.texture
    /\ \A m \in DOMAIN old.texture :
          /\ new.texture[m].theme = old.texture[m].theme
          /\ Len(new.texture[m].values) = Len(old.texture[m].values)
          /\ old.texture[m].values # << >> =>
                TextureMoved(new.texture[m].values[1], old.texture[m].values[1],
                             Depth(old.type), T, V)

\* C7: when B's textures are spliced into A, every innermost list of the
\* texture values of B's geometries gets len(A.textures) added to its first
\* element and len(A.vertices-texture) to the others; null stays null and the
\* nesting is unchanged
C7_TextureOffsets ==
    Spliced =>
        LET b == last.arg[1]
            T == OptLen(pre.textures)
            V == OptLen(pre.vertices_texture)
        IN  \A oi \in DOMAIN b.CityObjects :
                LET old == BroughtFrom(b.CityObjects[oi])
                    new == BroughtInto(cm, b.CityObjects[oi])
                IN  /\ Len(new) = Len(old)
                    /\ \A gi \in DOMAIN old : ThemesMoved(new[gi], old[gi], T, V)

HasTexture(gs, tuple) ==
    \E i \in DOMAIN gs :
        /\ gs[i].type = "MultiSurface"
        /\ gs[i].texture # << >>
        /\ gs[i].texture[1].values = << << << tuple >> >> >>

\* B's texture leaf [0, 2, 1, 0] was spliced into A with 1 texture and 4 uv
\* vertices and is [1, 6, 5, 4]; so was a null leaf, still null
C7_Witness ==
    /\ Spliced
    /\ OptLen(pre.textures) = 1
    /\ OptLen(pre.vertices_texture) = 4
    /\ \/ /\ HasTexture(BroughtFrom(last.arg[1].CityObjects[1]), << 0, 2, 1, 0 >>)
          /\ HasTexture(BroughtInto(cm, last.arg[1].CityObjects[1]), << 1, 6, 5, 4 >>)
       \/ /\ last.op = "merge"
          /\ HasTexture(BroughtFrom(last.arg[1].CityObjects[1]), << None >>)
          /\ HasTexture(BroughtInto(cm, last.arg[1].CityObjects[1]), << None >>)

\* ------------------------------------------------ triangulation: properties
\* the vertex indices of the rings of a face
RingIndices(face) == UNION { Range(face[ii]) : ii \in DOMAIN face }

\* every triangle has exactly 3 indices, each an index of a ring of the face
FromRings(triangles, face) ==
    \A t \in DOMAIN triangles :
        /\ Len(triangles[t]) = 3
        /\ Range(triangles[t]) \subseteq RingIndices(face)

\* C8: whenever triangulate_face reports success, with either strategy, every
\* triangle it returns has exactly 3 indices and each of them is an index of one
\* of the rings of the face it was given: for every call that triangulate made,
\* and for every face of the dataset given to triangulate_face directly, whatever
\* the library answers.
C8_TrianglesFromRings ==
    /\ last.op = "triangulate" =>
          \A c \in DOMAIN last.calls :
              last.calls[c].b => FromRings(last.calls[c].re, last.calls[c].face)
    /\ \A face \in Faces(cm) : \A sloppy \in BOOLEAN : \A kind \in Kinds(face, sloppy) :
          triangulate_face(face, cm.vertices, sloppy, kind).b =>
              FromRings(triangulate_face(face, cm.vertices, sloppy, kind).re, face)

\* a face with a hole was triangulated by the robust strategy: 6 triangles over
\* its 8 ring indices, none of them equal to its position in the flat list
C8_Witness ==
    /\ last.op = "triangulate"
    /\ ~last.sloppy
    /\ \E c \in DOMAIN last.calls :
          /\ last.calls[c].b
          /\ Len(last.calls[c].face) = 2
          /\ Len(last.calls[c].re) = 6
          /\ \E t \in DOMAIN last.calls[c].re : 4 \in Range(last.calls[c].re[t])

\* a face whose single ring has exactly 2 distinct indices
Degenerate(face) == Len(face) = 1 /\ Cardinality(Range(face[1])) = 2

\* outs without the faces of "boundaries" a that are degenerate
RECURSIVE WithoutDegenerate(_, _, _)
WithoutDegenerate(outs, d, a) ==
    IF d = 1
    THEN LET kept == { i \in DOMAIN outs : ~Degenerate(a[i]) }
             nth(k) == CHOOSE i \in kept : Cardinality({ l \in kept : l < i }) = k - 1
         IN  [k \in 1..Cardinality(kept) |-> outs[nth(k)]]
    ELSE [i \in DOMAIN outs |-> WithoutDegenerate(outs[i], d - 1, a[i])]

\* the geometries of j that triangulate works on, as positions in AllGeoms(j)
SurfaceGeoms(j) == { i \in DOMAIN AllGeoms(j) : IsTriangulated(AllGeoms(j)[i].type) }

\* what the loop body does for each face of geometry g of the dataset before
\* the last triangulate
OutsBefore(g) ==
    FaceOuts(g.boundaries, FaceDepth(g.type), << >>, g, pre.vertices, last.sloppy, last.lib)

\* C9 (as claimed): for a face whose single ring has exactly 2 distinct indices,
\* triangulate_face returns the failure flag and does not raise, with the robust
\* and with the fast strategy, and triangulate emits no triangle for it: the new
\* boundaries of its geometry are the triangles of the other faces alone.
C9_DegenerateSkipped ==
    last.op = "triangulate" =>
        \A i \in SurfaceGeoms(pre) :
            /\ \A face \in Range(Leaves(AllGeoms(pre)[i].boundaries, FaceDepth(AllGeoms(pre)[i].type))) :
                  Degenerate(face) =>
                      \A sloppy \in BOOLEAN : \A kind \in Kinds(face, sloppy) :
                          /\ ~triangulate_face(face, pre.vertices, sloppy, kind).raised
                          /\ ~triangulate_face(face, pre.vertices, sloppy, kind).b
            /\ ~last.raised =>
                  AllGeoms(cm)[i].boundaries =
                      TriangleLists(WithoutDegenerate(OutsBefore(AllGeoms(pre)[i]),
                                                      FaceDepth(AllGeoms(pre)[i].type),
                                                      AllGeoms(pre)[i].boundaries),
                                    FaceDepth(AllGeoms(pre)[i].type))

\* the lists of vals branch as the boundaries a do, down to one entry per
\* triangle under each shell
RECURSIVE Congruent(_, _, _)
Congruent(vals, a, d) ==
    /\ Len(vals) = Len(a)
    /\ d > 1 => \A i \in DOMAIN a : Congruent(vals[i], a[i], d - 1)

\* the same for semantics values, where a branch may be null
RECURSIVE SemCongruent(_, _, _)
SemCongruent(vals, a, d) ==
    \/ vals.null
    \/ /\ Len(vals.v) = Len(a)
       /\ d > 1 => \A i \in DOMAIN a : SemCongruent(vals.v[i], a[i], d - 1)

\* every face of the MultiSurface g of the dataset before gave one entry equal
\* to its material value per triangle it gave
FaceMaterialKept(g, new) ==
    LET outs == OutsBefore(g)
    IN  \A m \in DOMAIN g.material :
            g.material[m].kind = "values" =>
                new.material[m].v =
                    Concat([f \in DOMAIN outs |->
                              [k \in DOMAIN outs[f].out.tris |-> g.material[m].v[f]]])

\* C10 (as claimed): after triangulate the semantics values, the values of every
\* material theme and of every texture theme of a surface or solid geometry
\* branch as its new boundaries do, with one entry per triangle under each shell,
\* whether or not faces failed; and the triangles of a MultiSurface face carry
\* the material value of the face.
C10_AttributesCongruent ==
    (last.op = "triangulate" /\ ~last.raised) =>
        \A i \in SurfaceGeoms(cm) :
            LET g == AllGeoms(cm)[i]
                d == FaceDepth(g.type)
            IN  /\ g.semantics # << >> => SemCongruent(g.semantics[1], g.boundaries, d)
                /\ \A m \in DOMAIN g.material :
                      g.material[m].kind = "values" => Congruent(g.material[m].v, g.boundaries, d)
                /\ \A m \in DOMAIN g.texture :
                      g.texture[m].values # << >> =>
                          Congruent(g.texture[m].values[1], g.boundaries, d)
                /\ AllGeoms(pre)[i].type = "MultiSurface" => FaceMaterialKept(AllGeoms(pre)[i], g)

\* ------------------------------------------------------------ every operation
\* a dataset as loaded: the target of the splice machine, or a dataset of the
\* triangulation machine with a face to triangulate
\* a pool of which two vertices fall together at 0 digits
CollapsingPool ==
    << << PyInt(0), PyInt(0), PyFloat(0) >>,
       << PyFloat(Unit \div 2), PyInt(0), PyFloat(0) >>,
       << PyFloat((3 * Unit) \div 4), PyFloat(Unit + 1), PyFloat(0) >> >>

Init ==
    /\ \/ \E app \in AppsA, tmpl \in BOOLEAN, k \in Digits : cm = DatasetA(app, tmpl, "full", k)
       \/ \E objs \in PoolObjects(3) : cm = CityJSON(CollapsingPool, << >>, objs)
       \/ cm = DatasetA("none", FALSE, "nogeometry", 0)
       \/ \E type \in { "MultiSurface", "Solid" }, k1 \in { "quad", "holed" }, attr \in { "none", "all" } :
             cm = SurfaceDataset(type, FaceOf(k1), FaceOf("quad"), attr)
    /\ pre = cm
    /\ last = Called("load", 0, TRUE, 0, "none")

\* an exception of an operation ends the sequence; the sequences explored are
\* those of at most two operations after the load
Running == ~last.raised /\ last.before \in { "none", "load" }

Next ==
    \/ Running /\ RemoveDuplicateVertices
    \/ Running /\ RemoveOrphanVertices
    \/ Running /\ Compress
    \/ Running /\ Decompress
    \/ Running /\ AddCityJSONFeature
    \/ Running /\ Merge
    \/ Running /\ Triangulate

Spec == Init /\ [][Next]_vars

\* ------------------------------------------------- properties of the indices
InTable(x, n) == x >= 0 /\ x < n

\* the boundary leaves of g are positions of a pool of n vertices
BoundariesInRange(g, n) ==
    \A x \in Range(Leaves(g.boundaries, Depth(g.type))) : InTable(x, n)

\* the leaves of the material themes of g are positions of a table of n materials
MaterialInRange(g, n) ==
    \A m \in DOMAIN g.material :
        IF g.material[m].kind = "value" THEN InTable(g.material[m].v, n)
        ELSE \A x \in Range(Leaves(g.material[m].v, MaterialDepth(g.type))) :
                x = None \/ InTable(x, n)

\* the first leaf of every innermost list of the texture themes of g is a
\* position of a table of nt textures, the others of a table of nv uv vertices
TextureInRange(g, nt, nv) ==
    \A m \in DOMAIN g.texture :
        g.texture[m].values # << >> =>
            \A ring \in Range(Leaves(g.texture[m].values[1], Depth(g.type) - 1)) :
                \/ ring = << None >>
                \/ /\ InTable(ring[1], nt)
                   /\ \A u \in 2..Len(ring) : InTable(ring[u], nv)

IndicesInRange(j) ==
    /\ \A i \in DOMAIN AllGeoms(j) :
          /\ BoundariesInRange(AllGeoms(j)[i], Len(j.vertices))
          /\ MaterialInRange(AllGeoms(j)[i], OptLen(j.materials))
          /\ TextureInRange(AllGeoms(j)[i], OptLen(j.textures), OptLen(j.vertices_texture))
          /\ AllGeoms(j)[i].template # None => InTable(AllGeoms(j)[i].template, TemplateCount(j))
    /\ j.templates # << >> =>
          \A t \in DOMAIN j.templates[1].templates :
              BoundariesInRange(j.templates[1].templates[t], Len(j.templates[1].vertices_templates))

\* C1 (as claimed): from a dataset whose vertex, material, texture, uv vertex and
\* template index leaves are all positions of their pool or table, after any
\* sequence of remove_duplicate_vertices, remove_orphan_vertices, compress,
\* decompress, add_cityjsonfeature, merge and triangulate that did not end in an
\* exception, every index leaf of every geometry is still a position of the pool
\* or table it refers to.
C1_IndicesInRange == ~last.raised => IndicesInRange(cm)

\* ------------------------------------------------ properties of the cleanup
\* compress ran to its end: called directly, or by merge at line 1231
Compressed == (last.op = "compress" /\ last.ok) \/ (last.op = "merge" /\ ~last.raised)

\* C13: whenever compress has returned True, called directly or at the end of
\* merge, no two vertices of the pool are the same quantized triple, every
\* vertex of the pool is referenced by a boundary leaf and every boundary leaf
\* is a position of the pool.
C13_CleanAfterCompress ==
    Compressed =>
        /\ NoDuplicates([n \in DOMAIN cm.vertices |-> Value(cm.vertices[n])])
        /\ \A n \in 0..(Len(cm.vertices) - 1) : n \in Referenced(cm)
        /\ LeavesInRange(cm)

\* compress made two referenced vertices the same triple and left one of them
C13_Witness ==
    /\ last.op = "compress" /\ last.ok
    /\ \A n \in 0..(Len(pre.vertices) - 1) : n \in Referenced(pre)
    /\ NoDuplicates([n \in DOMAIN pre.vertices |-> Value(pre.vertices[n])])
    /\ Len(cm.vertices) < Len(pre.vertices)

\* ------------------------------------------ properties of the merge policies
\* the dataset given to the last merge
MergedB == last.arg[1]

\* the ids of the CityObjects that the target and B both had
SharedIds == { pre.CityObjects[i].id : i \in DOMAIN pre.CityObjects } \cap
             { MergedB.CityObjects[i].id : i \in DOMAIN MergedB.CityObjects }

ObjectOf(j, id) == j.CityObjects[ObjIndex(j.CityObjects, id)]

AttributeNames(o) == IF o.attributes = << >> THEN { } ELSE DOMAIN o.attributes[1]

\* C14 (as claimed): for every CityObject id that A and B both have, after
\* merge the names of A's attributes are those of A and of B together, a name
\* that A had keeps A's value and a name that only B had has B's value, also
\* when A's object has no attributes member (merge does not fail before it has
\* added them).
C14_AttributesUnion ==
    last.op = "merge" =>
        \A id \in SharedIds :
            LET ao == ObjectOf(pre, id)
                bo == ObjectOf(MergedB, id)
                ro == ObjectOf(cm, id)
            IN  /\ AttributeNames(ro) = AttributeNames(ao) \cup AttributeNames(bo)
                /\ \A a \in AttributeNames(ao) : ro.attributes[1][a] = ao.attributes[1][a]
                /\ \A a \in AttributeNames(bo) \ AttributeNames(ao) :
                      ro.attributes[1][a] = bo.attributes[1][a]

\* what the geometry policy looks at: type, lod and boundaries
Shape(g) == << g.type, g.lod, g.boundaries >>

\* C15 (as claimed): for every CityObject id that A and B both have, after a
\* merge that did not raise A's geometry list (at line 1227, before the cleanup
\* renumbers the pool) is A's list followed by the geometries of B of which A
\* had no geometry with the same lod, their vertex indices offset by the length
\* of A's pool; all geometries of B when A's object had no geometry.
C15_GeometryByLod ==
    (last.op = "merge" /\ ~last.raised) =>
        \A id \in SharedIds :
            LET ao == ObjectOf(pre, id)
                bo == ObjectOf(MergedB, id)
                ro == ObjectOf(last.mid[1], id)
                new == SelectSeq(ObjGeoms(bo), LAMBDA g : g.lod \notin LodsOf(ao))
            IN  [k \in DOMAIN ObjGeoms(ro) |-> Shape(ObjGeoms(ro)[k])] =
                    [k \in DOMAIN ObjGeoms(ao) |-> Shape(ObjGeoms(ao)[k])] \o
                    [k \in DOMAIN new |-> Shape(OffsetBoundaries(new[k], Len(pre.vertices)))]

\* material leaf new is leaf old moved by offset and designates in table the
\* material that old designates in B's table; null stays null
LeafMoved(new, old, offset, table, btable) ==
    IF old = None THEN new = None
    ELSE /\ new = old + offset
         /\ new < Len(table)
         /\ table[new + 1] = btable[old + 1]

\* the material themes of geometry new are those of old, every leaf moved
MaterialMoved(new, old, offset, table, btable) ==
    /\ DOMAIN new.material = DOMAIN old.material
    /\ \A m \in DOMAIN old.material :
          /\ new.material[m].theme = old.material[m].theme
          /\ new.material[m].kind = old.material[m].kind
          /\ IF old.material[m].kind = "value"
             THEN LeafMoved(new.material[m].v, old.material[m].v, offset, table, btable)
             ELSE LET ln == Leaves(new.material[m].v, MaterialDepth(new.type))
                      lo == Leaves(old.material[m].v, MaterialDepth(old.type))
                  IN  /\ Len(ln) = Len(lo)
                      /\ \A p \in DOMAIN lo : LeafMoved(ln[p], lo[p], offset, table, btable)

\* C16: when B has a materials table, after a merge that did not raise A's
\* table is A's old table (none: empty) followed by B's, and every material
\* leaf, scalar value or nested values, of every geometry brought in from B is
\* its value in B plus the length of A's old table, so that it designates the
\* material it designated in B; null stays null.
C16_MaterialOffset ==
    (last.op = "merge" /\ ~last.raised /\ MergedB.materials # << >>) =>
        LET old == IF pre.materials = << >> THEN << >> ELSE pre.materials[1]
        IN  /\ cm.materials = << old \o MergedB.materials[1] >>
            /\ \A oi \in DOMAIN MergedB.CityObjects :
                  LET from == BroughtFrom(MergedB.CityObjects[oi])
                      into == BroughtInto(cm, MergedB.CityObjects[oi])
                  IN  /\ Len(into) = Len(from)
                      /\ \A gi \in DOMAIN from :
                            MaterialMoved(into[gi], from[gi], Len(old),
                                          cm.materials[1], MergedB.materials[1])

\* B's scalar material value 0 is 2 in A, which had 2 materials, and B's nested
\* value 0 is 0 in an A that had none
C16_Witness ==
    /\ last.op = "merge" /\ ~last.raised /\ MergedB.materials # << >>
    /\ \E oi \in DOMAIN MergedB.CityObjects :
          LET from == BroughtFrom(MergedB.CityObjects[oi])
              into == BroughtInto(cm, MergedB.CityObjects[oi])
          IN  \E gi \in DOMAIN from :
                 /\ from[gi].material # << >>
                 /\ from[gi].material[1].kind = "value"
                 /\ from[gi].material[1].v = 0
                 /\ into[gi].material[1].v = 2
                 /\ OptLen(pre.materials) = 2

\* --------------------------------------------------- merge-precision property
Coarser(ka, kb) == IF ka < kb THEN ka ELSE kb
Finer(ka, kb) == IF ka < kb THEN kb ELSE ka

\* the loop of a merge that returned left the target without transform, its
\* pool being A's decompressed pool followed by B's decompressed pool
ConcatenatedDecompressed ==
    /\ pre.transform # << >> /\ MergedB.transform # << >>
    /\ last.mid[1].transform = << >>
    /\ last.mid[1].vertices = decompress(pre).j.vertices \o decompress(MergedB).j.vertices

\* the target is quantized with k digits: scale 10^-k, and every vertex is a
\* triple of integers, the nearest to (coord - translate) * 10^k of a vertex of
\* the concatenated pool
QuantizedAt(k) ==
    /\ cm.transform # << >>
    /\ cm.transform[1].scale = k
    /\ \A n \in DOMAIN cm.vertices :
          /\ \A i \in 1..3 : ~cm.vertices[n][i].fl /\ cm.vertices[n][i].v % Unit = 0
          /\ \E m \in DOMAIN last.mid[1].vertices : \A i \in 1..3 :
                IsRounded(cm.vertices[n][i].v \div Unit,
                          last.mid[1].vertices[m][i].v - cm.transform[1].translate[i].v, k)

\* C17 as stated: a merge that returned decompressed A and B before it
\* concatenated the pools, and quantized the result with the smaller of the two
\* numbers of digits (the coarser precision, the larger scale).
C17_CoarserPrecision ==
    (last.op = "merge" /\ ~last.raised) =>
        /\ ConcatenatedDecompressed
        /\ QuantizedAt(Coarser(pre.transform[1].scale, MergedB.transform[1].scale))

\* C17 amended: a merge that returned decompressed A and B before it
\* concatenated the pools, and quantized the result with the larger of the two
\* numbers of digits (the finer precision, the smaller scale).
C17_FinerPrecision ==
    (last.op = "merge" /\ ~last.raised) =>
        /\ ConcatenatedDecompressed
        /\ QuantizedAt(Finer(pre.transform[1].scale, MergedB.transform[1].scale))

\* A had 0 digits and B 1 digit, the result has 1 digit and a vertex that is not
\* a multiple of 10
C17_Witness ==
    /\ last.op = "merge" /\ ~last.raised
    /\ pre.transform[1].scale = 0
    /\ MergedB.transform[1].scale = 1
    /\ cm.transform[1].scale = 1
    /\ \E n \in DOMAIN cm.vertices : \E i \in 1..3 : cm.vertices[n][i].v % (10 * Unit) # 0

\* ------------------------------------------------------ merge-copies property
\* B as the merge left it
MergedBAfter == last.after[1]

\* C18: after a merge that returned, the merged dataset B is as it was before
\* the call: its vertices, transform, CityObjects (boundaries, material and
\* texture leaves) and templates are unchanged, which they are only if A took
\* copies and no later update of A reached an object of B.
C18_MergeCopies ==
    (last.op = "merge" /\ ~last.raised) =>
        /\ MergedBAfter.transform = MergedB.transform
        /\ MergedBAfter.vertices = MergedB.vertices
        /\ MergedBAfter.CityObjects = MergedB.CityObjects
        /\ MergedBAfter.templates = MergedB.templates
        /\ MergedBAfter.materials = MergedB.materials
        /\ MergedBAfter.textures = MergedB.textures

\* ------------------------------------------- texture theme without "values"
\* geometry g has a texture theme without the member "values"
NoValues(g) == \E m \in DOMAIN g.texture : g.texture[m].values = << >>

\* the CityObjects of B of which a geometry brought into A has such a theme
FailingObjects ==
    { oi \in DOMAIN MergedB.CityObjects :
         \E gi \in DOMAIN BroughtFrom(MergedB.CityObjects[oi]) :
             NoValues(BroughtFrom(MergedB.CityObjects[oi])[gi]) }

\* the theme without values is in the target as it was in B, if it is there:
\* a geometry brought in is the one of its object that has its lod
NotCoerced(bo) ==
    LET i == ObjIndex(cm.CityObjects, bo.id)
    IN  i # 0 =>
          \A gi \in DOMAIN BroughtFrom(bo) : \A k \in DOMAIN ObjGeoms(cm.CityObjects[i]) :
              LET old == BroughtFrom(bo)[gi]
                  new == ObjGeoms(cm.CityObjects[i])[k]
              IN  new.lod = old.lod =>
                    /\ DOMAIN new.texture = DOMAIN old.texture
                    /\ \A m \in DOMAIN old.texture :
                          old.texture[m].values = << >> => new.texture[m].values = << >>

\* object bo of B is in the target, its texture leaves moved by A's table lengths
StillMerged(bo) ==
    /\ ObjIndex(cm.CityObjects, bo.id) # 0
    /\ \A gi \in DOMAIN BroughtFrom(bo) :
          ThemesMoved(BroughtInto(cm, bo)[gi], BroughtFrom(bo)[gi],
                      OptLen(pre.textures), OptLen(pre.vertices_texture))

\* C19: when a geometry that merge brings in from a CityObject of B has a
\* texture theme without values, an error is reported, the theme is neither
\* given values nor offset, the other CityObjects of B are still merged, and the
\* target is still deduplicated and quantized when the call ends.
C19_MissingValuesAbortsObject ==
    (last.op = "merge" /\ FailingObjects # { }) =>
        /\ last.raised
        /\ \A oi \in FailingObjects : NotCoerced(MergedB.CityObjects[oi])
        /\ \A oi \in DOMAIN MergedB.CityObjects \ FailingObjects :
              StillMerged(MergedB.CityObjects[oi])
        /\ cm.transform # << >>
        /\ NoDuplicates([n \in DOMAIN cm.vertices |-> Value(cm.vertices[n])])

\* ------------------------------------------------- semantics of the triangles
\* new is what the semantics branch old becomes over the faces outs below it:
\* a null branch under which a triangle was emitted is null; a branch that is
\* not null stays a list, of one list per shell or solid and, for the faces of
\* a shell, of the value of each face once per triangle the face gave
RECURSIVE SemPropagated(_, _, _, _)
SemPropagated(new, old, outs, d) ==
    IF old.null
    THEN (\E k \in DOMAIN FlatOuts(outs, d) : Len(FlatOuts(outs, d)[k].out.tris) > 0) => new.null
    ELSE /\ ~new.null
         /\ IF d = 1
            THEN new.v = Concat([f \in DOMAIN outs |->
                                   [k \in DOMAIN outs[f].out.tris |-> old.v[f]]])
            ELSE /\ Len(new.v) = Len(outs)
                 /\ \A i \in DOMAIN outs : SemPropagated(new.v[i], old.v[i], outs[i], d - 1)

\* C20: after a triangulate that did not raise, in every surface or solid
\* geometry with semantics each triangle of a face that was triangulated has the
\* semantic index of that face, unchanged, at the place of the face's shell and
\* solid; where the values array or the branch of a shell or solid is null and a
\* face under it gave a triangle, the new values are null at that branch, and
\* the other branches have their values per triangle.
C20_SemanticsPropagated ==
    (last.op = "triangulate" /\ ~last.raised) =>
        \A i \in SurfaceGeoms(pre) :
            AllGeoms(pre)[i].semantics # << >> =>
                /\ AllGeoms(cm)[i].semantics # << >>
                /\ SemPropagated(AllGeoms(cm)[i].semantics[1], AllGeoms(pre)[i].semantics[1],
                                 OutsBefore(AllGeoms(pre)[i]), FaceDepth(AllGeoms(pre)[i].type))

\* a Solid whose second shell had null semantics: the two triangles of the
\* first face have its index 0, the triangle of the second its index 1, and the
\* second shell, which gave triangles, is null
C20_Witness ==
    /\ last.op = "triangulate" /\ ~last.raised
    /\ \E i \in SurfaceGeoms(pre) :
          /\ AllGeoms(pre)[i].type = "Solid"
          /\ AllGeoms(pre)[i].semantics = << Branch(<< Branch(<< 0, 1 >>), NullBranch >>) >>
          /\ AllGeoms(cm)[i].semantics = << Branch(<< Branch(<< 0, 0, 1 >>), NullBranch >>) >>
          /\ Len(AllGeoms(cm)[i].boundaries[2]) > 0

\* ------------------------------------------------- material of the triangles
\* for material values vals of the geometry g of the dataset before: the entry
\* at its own position of each face, once per triangle the face gave, in the
\* order of the loops
OwnEntries(g, vals) ==
    LET flat == FlatOuts(OutsBefore(g), FaceDepth(g.type))
    IN  Concat([k \in DOMAIN flat |->
                  [t \in DOMAIN flat[k].out.tris |-> At(vals, flat[k].path)]])

\* C21: after a triangulate that did not raise, in every surface or solid
\* geometry a material theme with a scalar value is as it was, and the values of
\* a theme with a values array are, over all shells and solids in order, the
\* entry at the own position of each face (values[i], values[s][i] or
\* values[d][s][i]) once per triangle emitted from it.
C21_MaterialPropagated ==
    (last.op = "triangulate" /\ ~last.raised) =>
        \A i \in SurfaceGeoms(pre) :
            LET old == AllGeoms(pre)[i]
                new == AllGeoms(cm)[i]
            IN  /\ DOMAIN new.material = DOMAIN old.material
                /\ \A m \in DOMAIN old.material :
                      IF old.material[m].kind = "value" THEN new.material[m] = old.material[m]
                      ELSE /\ new.material[m].kind = "values"
                           /\ Leaves(new.material[m].v, MaterialDepth(new.type))
                                = OwnEntries(old, old.material[m].v)

\* -------------------------------------------------- texture of the triangles
\* leaf is the texture leaf of triangle tri of a face whose leaf in the same
\* theme is tv (one list per ring): [None] when every ring of tv is null, else
\* the texture index of tv and, for each vertex of tri, the uv index that tv
\* holds at a position of that vertex in a ring of the face
OwnTexture(leaf, tri, face, tv) ==
    IF \A ii \in DOMAIN face : tv[ii][1] = None THEN leaf = << None >>
    ELSE /\ Len(leaf) = 4
         /\ \E ii \in DOMAIN face : tv[ii][1] # None /\ leaf[1] = tv[ii][1]
         /\ \A k \in 1..3 :
               \E ii \in DOMAIN face : \E q \in DOMAIN face[ii] :
                   /\ tv[ii][1] # None
                   /\ face[ii][q] = tri[k]
                   /\ leaf[k + 1] = tv[ii][q + 1]

\* the triangles that the faces of geometry g of the dataset before gave, each
\* with the path of its face, in the order of the loops
TrianglesOf(g) ==
    LET flat == FlatOuts(OutsBefore(g), FaceDepth(g.type))
    IN  Concat([k \in DOMAIN flat |->
                  [t \in DOMAIN flat[k].out.tris |->
                      [tri |-> flat[k].out.tris[t], path |-> flat[k].path]]])

\* C22: after a triangulate that did not raise, in every texture theme of every
\* surface or solid geometry there is one leaf per emitted triangle, and it is
\* [texture index of the triangle's face in that theme, uv(v1), uv(v2), uv(v3)]
\* with the uv indices of that face's leaf in that theme, or [null] when that
\* leaf is null: no other face and no other theme supplies any of them.
C22_TexturePropagated ==
    (last.op = "triangulate" /\ ~last.raised) =>
        \A i \in SurfaceGeoms(pre) :
            LET old == AllGeoms(pre)[i]
                new == AllGeoms(cm)[i]
                ts == TrianglesOf(old)
            IN  /\ DOMAIN new.texture = DOMAIN old.texture
                /\ \A m \in DOMAIN old.texture :
                      LET leaves == Leaves(new.texture[m].values[1], Depth(new.type) - 1)
                      IN  /\ Len(leaves) = Len(ts)
                          /\ \A n \in DOMAIN ts :
                                OwnTexture(leaves[n], ts[n].tri,
                                           At(old.boundaries, ts[n].path),
                                           At(old.texture[m].values[1], ts[n].path))

\* ------------------------------------------------------- cleanup of the rings
\* ring r with every run of equal consecutive indices collapsed to one
RECURSIVE Collapse(_)
Collapse(r) ==
    IF Len(r) <= 1 THEN r
    ELSE IF r[1] = r[2] THEN Collapse(Tail(r))
    ELSE << r[1] >> \o Collapse(Tail(r))

\* the faces of the surface and solid geometries of dataset j
SurfaceFaces(j) ==
    UNION { Range(Leaves(AllGeoms(j)[i].boundaries, FaceDepth(AllGeoms(j)[i].type))) :
               i \in SurfaceGeoms(j) }

\* C23: triangulate_face, robust or fast, works on the face with the
\* consecutive duplicates of each ring collapsed and nothing else changed: an
\* index that recurs in a ring without being consecutive is kept.
C23_ConsecutiveCollapsed ==
    last.op = "triangulate" =>
        \A face \in SurfaceFaces(pre) :
            \A sloppy \in BOOLEAN : \A kind \in Kinds(face, sloppy) :
                triangulate_face(face, pre.vertices, sloppy, kind).face
                    = [ii \in DOMAIN face |-> Collapse(face[ii])]

\* ------------------------------------------------------------ ring-size rules
\* a ring of the face has fewer than 3 indices once its consecutive duplicates
\* are collapsed
ShortRing(face) == \E ii \in DOMAIN face : Len(Collapse(face[ii])) < 3

\* the two rules for one result r of triangulate_face on face
RingRules(face, r) ==
    /\ (Len(face) = 1 /\ r.b /\ r.re = face) =>
          Len(face[1]) = 3 /\ Cardinality(Range(face[1])) = 3
    /\ ShortRing(face) => ~r.b /\ ~r.raised

\* C24: a face of one ring is returned as it is, as one triangle with success,
\* only if the ring has exactly 3 distinct indices, and a face with a ring of
\* fewer than 3 indices after the cleanup is reported as a failure without an
\* exception, by the robust and by the fast strategy; and triangulate, whose
\* shortcut comes before triangulate_face, emits no triangle for a face with
\* such a ring.
C24_RingSizeRules ==
    last.op = "triangulate" =>
        /\ \A face \in SurfaceFaces(pre) :
              \A sloppy \in BOOLEAN : \A kind \in Kinds(face, sloppy) :
                  RingRules(face, triangulate_face(face, pre.vertices, sloppy, kind))
        /\ ~last.raised =>
              \A i \in SurfaceGeoms(pre) :
                  \A n \in DOMAIN TrianglesOf(AllGeoms(pre)[i]) :
                      ~ShortRing(At(AllGeoms(pre)[i].boundaries,
                                    TrianglesOf(AllGeoms(pre)[i])[n].path))

\* ------------------------------------------------------------------------ C25
\* the strategy takes the normal of face f (the rings as it works on them): f
\* is past the returns of lines 76-87, or of line 162-163
NormalTaken(f, sloppy) ==
    IF sloppy THEN ~(Len(f) = 1 /\ Len(f[1]) = 3)
    ELSE ~(Len(f) = 1 /\ Len(f[1]) <= 3) /\ \A i \in DOMAIN f : Len(f[i]) >= 3

\* the Newell normal of the outer ring of f is the zero vector
ZeroOuterNormal(f, vnp) ==
    LET ring == Coords(vnp, f[1])
        N == Len(ring)
        ne(i) == IF i = N THEN 1 ELSE i + 1
        term(i, a, b) == (ring[i][a] - ring[ne(i)][a]) * (ring[i][b] + ring[ne(i)][b])
    IN  \A c \in { << 2, 3 >>, << 3, 1 >>, << 1, 2 >> } :
            SeqSum([i \in 1..N |-> term(i, c[1], c[2])]) = 0

DegenerateRule(f, vnp, sloppy, kind, r) ==
    /\ ZeroOuterNormal(f, vnp) => ~r.b /\ ~r.raised
    /\ (~ZeroOuterNormal(f, vnp) /\ kind = "fan") => r.b

\* C25: the normal of a face is the Newell normal of its outer ring alone, and a
\* face whose normal is the zero vector is a failure of triangulate_face under
\* both strategies: it is not projected and handed to the library
C25_DegenerateNormal ==
    last.op = "triangulate" =>
        \A face \in SurfaceFaces(pre) : \A sloppy \in BOOLEAN : \A kind \in Kinds(face, sloppy) :
            LET r == triangulate_face(face, pre.vertices, sloppy, kind)
            IN  NormalTaken(r.face, sloppy) => DegenerateRule(r.face, pre.vertices, sloppy, kind, r)

\* ------------------------------------------------------------------------ C26
\* geometry g without semantics, material and texture
Bare(g) == [g EXCEPT !.semantics = << >>, !.material = << >>, !.texture = << >>]

\* the boundaries triangulate gives to g when g has boundaries only
BareBoundaries(g, vnp, sloppy, lib) ==
    LET d == FaceDepth(g.type)
    IN  TriangleLists(FaceOuts(g.boundaries, d, << >>, Bare(g), vnp, sloppy, lib), d)

\* C26: the boundaries that triangulate gives to a geometry are those it gives
\* to the same geometry without semantics, material and texture, that is every
\* triangle of every face that triangulate_face triangulated
C26_BoundariesIndependent ==
    (last.op = "triangulate" /\ ~last.raised) =>
        \A i \in SurfaceGeoms(pre) :
            AllGeoms(cm)[i].boundaries =
                BareBoundaries(AllGeoms(pre)[i], pre.vertices, last.sloppy, last.lib)

\* ------------------------------------------------------------------------ C27
\* geometry new has the material, the texture and the template of geometry old
AppearanceKept(new, old) ==
    /\ new.material = old.material
    /\ new.texture = old.texture
    /\ new.template = old.template

\* C27: after merge every geometry that A had before has its material leaves,
\* texture leaves and template reference unchanged, also in the CityObjects
\* whose id is in B too: the offsets go to the geometries that came from B
C27_OwnGeometriesKept ==
    (last.op = "merge" /\ ~last.raised) =>
        \A oi \in DOMAIN pre.CityObjects :
            LET old == ObjGeoms(pre.CityObjects[oi])
                new == ObjGeoms(ObjectOf(cm, pre.CityObjects[oi].id))
            IN  \A gi \in DOMAIN old : AppearanceKept(new[gi], old[gi])

\* ------------------------------------------------------------------------ C28
\* the nesting of a boundaries array of depth d, without its leaves
RECURSIVE Nesting(_, _)
Nesting(a, d) == IF d = 0 THEN 0 ELSE [i \in DOMAIN a |-> Nesting(a[i], d - 1)]

\* dataset j without its pool and without the leaves of its boundaries
Frame(j) == [WithBoundaries(j, LAMBDA g : Nesting(g.boundaries, Depth(g.type))) EXCEPT !.vertices = << >>]

Renumbering == last.op \in { "remove_duplicate_vertices", "remove_orphan_vertices" }

\* C28: remove_duplicate_vertices and remove_orphan_vertices only renumber:
\* every boundary leaf resolves in the new pool to the triple of the same value
\* as in the old pool, and the nesting of the boundaries, the semantics,
\* material and texture of the geometries, the appearance tables, the
\* templates and everything else but the pool are as before
C28_PureRenumbering ==
    (Renumbering /\ LeavesInRange(pre)) =>
        /\ LeavesInRange(cm)
        /\ Len(AllLeaves(cm)) = Len(AllLeaves(pre))
        /\ \A p \in DOMAIN AllLeaves(pre) : Value(Resolved(cm)[p]) = Value(Resolved(pre)[p])
        /\ Frame(cm) = Frame(pre)

\* duplicates were removed from the pool of a dataset that has material,
\* texture and a template, and a leaf got a new number
C28_Witness ==
    /\ last.op = "remove_duplicate_vertices"
    /\ last.removed > 0
    /\ AllLeaves(cm) # AllLeaves(pre)
    /\ pre.materials # << >>
    /\ pre.templates # << >>

\* ------------------------------------------------------------ upgrade_version
\* line 38
CITYJSON_VERSIONS_SUPPORTED == << "0.6", "0.8", "0.9", "1.0", "1.1", "2.0" >>

\* the two forms of "referenceSystem": the URN of v1.0 and the URL of v1.1
UrnCrs == "urn:ogc:def:crs:EPSG::7415"
OgcCrs == "https://www.opengis.net/def/crs/EPSG/0/7415"

GenericUrl == "https://cityjson.org/extensions/download/generic.ext.json"

\* "metadata": each property absent or present
Metadata(referenceSystem) ==
    [crs |-> << >>, referenceSystem |-> referenceSystem, geographicalExtent |-> << >>,
     datasetTitle |-> << >>, title |-> << >>,
     datasetPointOfContact |-> << >>, pointOfContact |-> << >>]

\* get_epsg(), lines 268-278: the code, None, or ValueError for a string that
\* is not the URL form
get_epsg(j) ==
    IF j.metadata = << >> \/ j.metadata[1].referenceSystem = << >>
    THEN [epsg |-> None, raised |-> FALSE]
    ELSE IF j.metadata[1].referenceSystem[1] = OgcCrs THEN [epsg |-> 7415, raised |-> FALSE]
    ELSE [epsg |-> None, raised |-> TRUE]

\* min() and max() return the first of equal numbers
FirstMin(xs) ==
    xs[CHOOSE k \in DOMAIN xs :
          /\ \A m \in DOMAIN xs : xs[k].v <= xs[m].v
          /\ \A m \in 1..(k - 1) : xs[m].v > xs[k].v]

FirstMax(xs) ==
    xs[CHOOSE k \in DOMAIN xs :
          /\ \A m \in DOMAIN xs : xs[k].v >= xs[m].v
          /\ \A m \in 1..(k - 1) : xs[m].v < xs[k].v]

ZeroBBox == [i \in 1..6 |-> PyInt(0)]

\* calculate_bbox(), lines 362-378
calculate_bbox(j) ==
    IF Len(j.vertices) = 0 THEN ZeroBBox
    ELSE LET axis(i) == [n \in DOMAIN j.vertices |-> j.vertices[n][i]]
             bbox == [i \in 1..6 |-> IF i <= 3 THEN FirstMin(axis(i)) ELSE FirstMax(axis(i - 3))]
         IN  IF j.transform = << >> THEN bbox
             ELSE [i \in 1..6 |->
                     PyFloat((bbox[i].v \div Unit) * Pow10(MaxDigits - j.transform[1].scale)
                             + j.transform[1].translate[((i - 1) % 3) + 1].v)]

\* update_bbox(), lines 380-393
update_bbox(j) ==
    LET m == IF j.metadata = << >> THEN Metadata(<< >>) ELSE j.metadata[1]
        bbox == IF Len(j.CityObjects) = 0 THEN ZeroBBox ELSE calculate_bbox(j)
    IN  [j EXCEPT !.metadata = << [m EXCEPT !.geographicalExtent = << bbox >>] >>]

\* lines 1252-1268 for the objects from position i on: Parts, Installations and
\* ConstructionElements become "children", and each child gets its "parent"
SubsOf(o) == Concat(<< Concat(o.Parts), Concat(o.Installations), Concat(o.ConstructionElements) >>)

RECURSIVE children_from_subs(_, _)
children_from_subs(objs, i) ==
    IF i > Len(objs) THEN objs
    ELSE LET children == SubsOf(objs[i])
         IN  IF Len(children) = 0 THEN children_from_subs(objs, i + 1)
             ELSE children_from_subs(
                    [k \in DOMAIN objs |->
                        LET o == IF k = i
                                 THEN [objs[k] EXCEPT !.children = << children >>, !.Parts = << >>,
                                                      !.Installations = << >>,
                                                      !.ConstructionElements = << >>]
                                 ELSE objs[k]
                        IN  IF o.id \in Range(children) THEN [o EXCEPT !.parent = << objs[i].id >>]
                            ELSE o],
                    i + 1)

\* the result of a migration step: self.j, what it returns, and whether it
\* ended in an exception (self.j is then as the exception found it)
StepResult(j, re, reasons, raised) == [j |-> j, re |-> re, reasons |-> reasons, raised |-> raised]

\* upgrade_version_v06_v08(), lines 1234-1268; it returns nothing
upgrade_version_v06_v08(j0) ==
    LET j == [j0 EXCEPT !.version = "0.8"]
        e == get_epsg(j)
        j1 == [j EXCEPT !.metadata =
                 << Metadata(IF e.epsg = None THEN << >> ELSE << OgcCrs >>) >>]
        j2 == update_bbox(j1)
        j3 == [j2 EXCEPT !.CityObjects =
                 [k \in DOMAIN j2.CityObjects |->
                     LET o == j2.CityObjects[k]
                     IN  IF o.bbox = << >> THEN o
                         ELSE [o EXCEPT !.geographicalExtent = o.bbox, !.bbox = << >>]]]
    IN  IF e.raised THEN StepResult(j, TRUE, << >>, TRUE)
        ELSE StepResult([j3 EXCEPT !.CityObjects = children_from_subs(j3.CityObjects, 1)],
                        TRUE, << >>, FALSE)

\* the texts of the reasons
ExtensionsChanged == "Extensions have changed completely in v0.9, update them manually."
GenericGone == "\"GenericCityObject\" is no longer in v1.1, instead Extensions are used. Your \"GenericCityObject\" have been changed to \"+GenericCityObject\" and the simple Extension \"Generic\" is used."
GenericBack == "\"GenericCityObject\" is in v2.0 Your \"+GenericCityObject\" have been changed to \"GenericCityObject\""

\* upgrade_version_v08_v09(reasons), lines 1271-1290
upgrade_version_v08_v09(j0, reasons) ==
    LET j == [j0 EXCEPT !.version = "0.9",
                        !.CityObjects =
                            [k \in DOMAIN j0.CityObjects |->
                                LET o == j0.CityObjects[k]
                                IN  IF o.parent = << >> THEN o
                                    ELSE [o EXCEPT !.parents = << o.parent >>, !.parent = << >>]]]
    IN  IF j.extensions # << >> THEN StepResult(j, FALSE, reasons \o << ExtensionsChanged >>, FALSE)
        ELSE StepResult(j, TRUE, << >>, FALSE)

\* upgrade_version_v09_v10(reasons), lines 1292-1300: every extension becomes
\* {"url": what it was, "version": "0.1"}
upgrade_version_v09_v10(j0, reasons) ==
    LET j == [j0 EXCEPT !.version = "1.0"]
    IN  StepResult(
            IF j.extensions = << >> THEN j
            ELSE [j EXCEPT !.extensions =
                    << [e \in DOMAIN j.extensions[1] |->
                          [j.extensions[1][e] EXCEPT !.nest = @ + 1, !.version = << "0.1" >>]] >>],
            TRUE, << >>, FALSE)

ObjIds(objs) == { objs[k].id : k \in DOMAIN objs }

\* lines 1323-1336 for the objects from position i on: the "members" of a
\* CityObjectGroup become its "children" and the group one of their "parents";
\* KeyError for a group without "members" and for a member that is no CityObject
RECURSIVE members_to_children(_, _)
members_to_children(objs, i) ==
    IF i > Len(objs) THEN [objs |-> objs, raised |-> FALSE]
    ELSE IF objs[i].type # "CityObjectGroup" THEN members_to_children(objs, i + 1)
    ELSE IF objs[i].members = << >> THEN [objs |-> objs, raised |-> TRUE]
    ELSE LET children == objs[i].members[1]
             theid == objs[i].id
             missing == { c \in DOMAIN children : children[c] \notin ObjIds(objs) }
             \* the children before the first that is missing
             reached == { children[c] : c \in { c \in DOMAIN children : \A m \in missing : c < m } }
             objs1 == [k \in DOMAIN objs |->
                          LET o == IF k = i
                                   THEN [objs[k] EXCEPT !.children = objs[i].members, !.members = << >>]
                                   ELSE objs[k]
                              ps == IF o.parents = << >> THEN << >> ELSE o.parents[1]
                          IN  IF o.id \notin reached THEN o
                              ELSE [o EXCEPT !.parents =
                                      << IF theid \in Range(ps) THEN ps ELSE Append(ps, theid) >>]]
         IN  IF missing # { } THEN [objs |-> objs1, raised |-> TRUE]
             ELSE members_to_children(objs1, i + 1)

Str(lod) == [lod EXCEPT !.num = FALSE]

\* lines 1362-1382: the properties of v1.1 are kept and renamed
v11_metadata(m) ==
    [crs |-> << >>, referenceSystem |-> m.referenceSystem,
     geographicalExtent |-> m.geographicalExtent,
     datasetTitle |-> << >>, title |-> m.datasetTitle,
     datasetPointOfContact |-> << >>, pointOfContact |-> m.datasetPointOfContact]

\* lines 1307-1322: lod=string, in the geometries and in the templates
lod_strings(j) ==
    [j EXCEPT
       !.CityObjects =
          [k \in DOMAIN j.CityObjects |->
              IF j.CityObjects[k].geometry = << >> THEN j.CityObjects[k]
              ELSE [j.CityObjects[k] EXCEPT !.geometry =
                      << [g \in DOMAIN @[1] |->
                            IF @[1][g].type = "GeometryInstance" THEN @[1][g]
                            ELSE [@[1][g] EXCEPT !.lod = Str(@)]] >>]],
       !.templates =
          IF j.templates = << >> THEN << >>
          ELSE << [@[1] EXCEPT !.templates = [t \in DOMAIN @ |-> [@[t] EXCEPT !.lod = Str(@)]]] >>]

\* lines 1337-1346: empty geometries, BridgeConstructionElement
without_empty_geometries(j) ==
    [j EXCEPT !.CityObjects =
        [k \in DOMAIN j.CityObjects |->
            [j.CityObjects[k] EXCEPT
               !.geometry = IF @ = << << >> >> THEN << >> ELSE @,
               !.type = IF @ = "BridgeConstructionElement" THEN "BridgeConstructiveElement" ELSE @]]]

\* lines 1347-1354: "referenceSystem" of a string with "epsg"; int() of what
\* follows "::" is a ValueError for the URL form
ReferenceSystem(j) == IF j.metadata = << >> THEN << >> ELSE j.metadata[1].referenceSystem

\* lines 1347-1382: CRS, addresses, metadata
addresses_and_metadata(j) ==
    [j EXCEPT
       !.CityObjects =
          [k \in DOMAIN j.CityObjects |->
              [j.CityObjects[k] EXCEPT
                 !.address = IF @ = << >> THEN @ ELSE << [@[1] EXCEPT !.list = @ + 1] >>]],
       !.metadata =
          IF @ = << >> THEN @
          ELSE << v11_metadata([@[1] EXCEPT
                     !.referenceSystem = IF @ = << UrnCrs >> THEN << OgcCrs >> ELSE @]) >>]

GenericExtension == [name |-> "Generic", url |-> GenericUrl, nest |-> 1, version |-> << "1.0" >>]

WithGeneric(exts) ==
    IF \E e \in DOMAIN exts : exts[e].name = "Generic"
    THEN [e \in DOMAIN exts |-> IF exts[e].name = "Generic" THEN GenericExtension ELSE exts[e]]
    ELSE Append(exts, GenericExtension)

\* lines 1383-1407: GenericCityObject becomes "+GenericCityObject" of the
\* extension "Generic"
generic_to_extension(j) ==
    IF \E k \in DOMAIN j.CityObjects : j.CityObjects[k].type = "GenericCityObject"
    THEN StepResult(
            [j EXCEPT
               !.CityObjects =
                  [k \in DOMAIN @ |->
                      [@[k] EXCEPT !.type = IF @ = "GenericCityObject" THEN "+GenericCityObject" ELSE @]],
               !.extensions = << WithGeneric(IF @ = << >> THEN << >> ELSE @[1]) >>],
            TRUE, << GenericGone >>, FALSE)
    ELSE StepResult(j, TRUE, << >>, FALSE)

\* lines 1337-1407, after the loop over the CityObjectGroups
v10_v11_after_groups(j) ==
    IF ReferenceSystem(j) = << OgcCrs >> THEN StepResult(j, TRUE, << >>, TRUE)
    ELSE generic_to_extension(addresses_and_metadata(j))

\* lines 1323-1407, groups being the outcome of the loop over the CityObjectGroups
v10_v11_groups(j, groups) ==
    IF groups.raised THEN StepResult([j EXCEPT !.CityObjects = groups.objs], TRUE, << >>, TRUE)
    ELSE v10_v11_after_groups(without_empty_geometries([j EXCEPT !.CityObjects = groups.objs]))

v10_v11_compressed(j) == v10_v11_groups(j, members_to_children(j.CityObjects, 1))

\* upgrade_version_v10_v11(reasons, digit), lines 1302-1407
upgrade_version_v10_v11(j0, reasons, digit) ==
    v10_v11_compressed(lod_strings(compress([j0 EXCEPT !.version = "1.1"], digit, << >>).j))

\* upgrade_version_v11_v20(reasons, digit), lines 1409-1442; TypeError for an
\* extension "Generic" that is a string
upgrade_version_v11_v20(j0, reasons, digit) ==
    LET j == [j0 EXCEPT
                !.version = "2.0",
                !.metadata =
                    IF @ = << >> THEN @
                    ELSE << [@[1] EXCEPT !.pointOfContact =
                               IF @ = << >> THEN @
                               ELSE << [@[1] EXCEPT !.address =
                                          IF @ = << >> THEN @
                                          ELSE << [@[1] EXCEPT !.nest = @ + 1] >>] >>] >>]
        exts == IF j.extensions = << >> THEN << >> ELSE j.extensions[1]
        generic == { e \in DOMAIN exts : exts[e].name = "Generic" }
        g == exts[CHOOSE e \in generic : TRUE]
        j1 == [j EXCEPT
                 !.CityObjects =
                    [k \in DOMAIN @ |->
                        [@[k] EXCEPT !.type = IF @ = "+GenericCityObject"
                                              THEN "GenericCityObject" ELSE @]],
                 !.extensions = << SelectSeq(exts, LAMBDA e : e.name # "Generic") >>]
    IN  IF generic = { } THEN StepResult(j, TRUE, << >>, FALSE)
        ELSE IF g.nest = 0 THEN StepResult(j, TRUE, << >>, TRUE)
        ELSE IF g.nest = 1 /\ g.url = GenericUrl THEN StepResult(j1, TRUE, << GenericBack >>, FALSE)
        ELSE StepResult(j, TRUE, << >>, FALSE)

Unsupported == "This version is not supported"

\* upgrade_version(newversion, digit), lines 1444-1464: self.j after the call,
\* what it returns, whether it ended in an exception, and the versions of
\* the steps it ran
RECURSIVE upgrade_chain(_, _, _, _, _)
upgrade_chain(j, re, reasons, digit, i) ==
    IF i > 5 THEN [j |-> j, re |-> re, reasons |-> reasons, raised |-> FALSE, steps |-> << >>]
    ELSE IF j.version # CITYJSON_VERSIONS_SUPPORTED[i] THEN upgrade_chain(j, re, reasons, digit, i + 1)
    ELSE LET r == CASE i = 1 -> [upgrade_version_v06_v08(j) EXCEPT !.re = re, !.reasons = reasons]
                    [] i = 2 -> upgrade_version_v08_v09(j, reasons)
                    [] i = 3 -> upgrade_version_v09_v10(j, reasons)
                    [] i = 4 -> upgrade_version_v10_v11(j, reasons, digit)
                    [] i = 5 -> upgrade_version_v11_v20(j, reasons, digit)
         IN  IF r.raised
             THEN [j |-> r.j, re |-> re, reasons |-> reasons, raised |-> TRUE,
                   steps |-> << CITYJSON_VERSIONS_SUPPORTED[i] >>]
             ELSE [upgrade_chain(r.j, r.re, r.reasons, digit, i + 1) EXCEPT
                      !.steps = << CITYJSON_VERSIONS_SUPPORTED[i] >> \o @]

upgrade_version(j, newversion, digit) ==
    IF newversion \notin Range(CITYJSON_VERSIONS_SUPPORTED)
    THEN [j |-> j, re |-> FALSE, reasons |-> << Unsupported >>, raised |-> FALSE, steps |-> << >>]
    ELSE upgrade_chain(j, TRUE, << >>, digit, 1)

\* ---------------------------------------------------------- the upgrade machine
NumLod == [num |-> TRUE, s |-> "1"]

\* a CityObject with the members that the migration steps read
UpgradeObject(id, type, geometry) ==
    [id |-> id, attributes |-> << >>, geometry |-> geometry, type |-> type,
     parent |-> << >>, parents |-> << >>, children |-> << >>, members |-> << >>,
     Parts |-> << >>, Installations |-> << >>, ConstructionElements |-> << >>,
     bbox |-> << >>, geographicalExtent |-> << >>, address |-> << >>]

PointGeometry == << << Geometry("MultiPoint", NumLod, << 0 >>) >> >>

ObjectKinds == { "plain", "parts", "group", "badgroup", "generic" }

UpgradeObjects(kind, version) ==
    LET a == UpgradeObject("a", "Building", PointGeometry)
        b == UpgradeObject("b", "BuildingPart", PointGeometry)
    IN  CASE kind = "plain" ->
               << a, [b EXCEPT !.parent = << "a" >>],
                  [UpgradeObject("c", "BridgeConstructionElement", << << >> >>)
                     EXCEPT !.address = << [list |-> 0] >>] >>
          [] kind = "parts" ->
               << [a EXCEPT !.Parts = << << "b" >> >>, !.Installations = << << "x" >> >>,
                            !.bbox = << ZeroBBox >>], b >>
          [] kind = "group" ->
               << [UpgradeObject("g", "CityObjectGroup", << >>) EXCEPT !.members = << << "a", "b" >> >>],
                  [a EXCEPT !.parents = << << "g" >> >>], b >>
          [] kind = "badgroup" ->
               << a, [UpgradeObject("g", "CityObjectGroup", << >>) EXCEPT !.members = << << "a", "z" >> >>] >>
          [] kind = "generic" ->
               << UpgradeObject("a", IF version \in { "1.1" } THEN "+GenericCityObject"
                                     ELSE "GenericCityObject", PointGeometry), b >>

ExtKinds == { "none", "noise", "generic" }

\* before v1.0 an extension is the string of its URL
UpgradeExtensions(ext, version) ==
    LET nest == IF version \in { "1.0", "1.1", "2.0" } THEN 1 ELSE 0
        ver == IF nest = 1 THEN << "1.0" >> ELSE << >>
    IN  CASE ext = "none" -> << >>
          [] ext = "noise" ->
               << << [name |-> "Noise", url |-> "https://someurl.org/noise.json",
                      nest |-> nest, version |-> ver] >> >>
          [] ext = "generic" ->
               << << [name |-> "Generic", url |-> GenericUrl, nest |-> nest, version |-> ver] >> >>

MetaKinds == { "none", "urn", "ogc" }

UpgradeMetadata(meta, version) ==
    LET contact == << [address |-> << [nest |-> 0] >>] >>
        m == Metadata(<< IF meta = "urn" THEN UrnCrs ELSE OgcCrs >>)
    IN  IF meta = "none" THEN << >>
        ELSE IF version \in { "1.1", "2.0" }
        THEN << [m EXCEPT !.title = << "title" >>, !.pointOfContact = contact] >>
        ELSE << [m EXCEPT !.datasetTitle = << "title" >>, !.datasetPointOfContact = contact,
                          !.crs = << 7415 >>] >>

\* self.j of a file of the given version: the members the operations read, and
\* "version", "extensions" and "metadata"
UpgradeDataset(version, ext, meta, kind, quantized) ==
    [vertices |-> IF quantized THEN << QV(0, 0), QV(1, 2) >>
                  ELSE << << PyFloat(Unit \div 2), PyInt(0), PyFloat(0) >>,
                          << PyInt(1), PyFloat(Unit + 1), PyInt(0) >> >>,
     transform |-> IF quantized THEN << [scale |-> 1, translate |-> ZeroOrigin] >> ELSE << >>,
     CityObjects |-> UpgradeObjects(kind, version),
     materials |-> << >>, textures |-> << >>, vertices_texture |-> << >>,
     templates |-> IF kind = "plain"
                   THEN << [templates |-> << Geometry("MultiPoint", NumLod, << 0 >>) >>,
                            vertices_templates |-> << QV(0, 0) >>] >>
                   ELSE << >>,
     version |-> version, extensions |-> UpgradeExtensions(ext, version),
     metadata |-> UpgradeMetadata(meta, version)]

\* the versions asked for: the supported ones and one that is not
NewVersions == Range(CITYJSON_VERSIONS_SUPPORTED) \cup { "3.0" }

InitUpgrade ==
    /\ \E version \in Range(CITYJSON_VERSIONS_SUPPORTED), ext \in ExtKinds, meta \in MetaKinds,
          kind \in ObjectKinds, quantized \in BOOLEAN :
          cm = UpgradeDataset(version, ext, meta, kind, quantized)
    /\ pre = cm
    /\ last = Called("load", 0, TRUE, 0, "none")

UpgradeVersion ==
    \E newversion \in NewVersions, digit \in Digits :
        \E r \in { upgrade_version(cm, newversion, digit) } :
            /\ cm' = r.j
            /\ pre' = cm
            /\ last' = [Called("upgrade_version", 0, r.re, digit, last.op) EXCEPT
                           !.raised = r.raised, !.newversion = newversion,
                           !.reasons = r.reasons, !.steps = r.steps]

\* an exception ends the sequence
NextUpgrade == ~last.raised /\ UpgradeVersion

SpecUpgrade == InitUpgrade /\ [][NextUpgrade]_vars

\* ------------------------------------------------------------------------ C29
Upgraded == last.op = "upgrade_version" /\ ~last.raised

\* a step that the last upgrade_version ran returned (False, reasons): the step
\* from 0.8, on a dataset with "extensions" (the step from 0.6 leaves them)
StepFailed == "0.8" \in Range(last.steps) /\ pre.extensions # << >>

\* C29: upgrade_version returns True only if every migration step it ran
\* returned True: when a step returned (False, reasons), upgrade_version returns
\* (False, reasons), whatever the later steps return
C29_FailureKept ==
    (Upgraded /\ StepFailed) => (~last.ok /\ last.reasons = << ExtensionsChanged >>)

\* ------------------------------------------------------------------------ C30
VersionIndex(v) == IndexOf(CITYJSON_VERSIONS_SUPPORTED, v)

\* steps are the versions of CITYJSON_VERSIONS_SUPPORTED from version start
\* on, one after the other
RunFrom(steps, start) ==
    \A k \in DOMAIN steps : steps[k] = CITYJSON_VERSIONS_SUPPORTED[VersionIndex(start) + k - 1]

StepsInOrder ==
    /\ Len(last.steps) <= 6 - VersionIndex(pre.version)
    /\ RunFrom(last.steps, pre.version)

Refused ==
    /\ ~last.raised
    /\ ~last.ok
    /\ last.reasons = << Unsupported >>
    /\ last.steps = << >>
    /\ cm = pre

\* C30: upgrade_version(newversion, digit) from a supported version runs the
\* migration steps in the order 0.6, 0.8, 0.9, 1.0, 1.1, each at most once and
\* none of a version before the one it starts from, and ends with "version"
\* equal to newversion; with a newversion that is not supported it returns
\* (False, message) and leaves the dataset as it was
C30_StepsToNewVersion ==
    last.op = "upgrade_version" =>
        IF last.newversion \in Range(CITYJSON_VERSIONS_SUPPORTED)
        THEN StepsInOrder /\ cm.version = last.newversion
        ELSE Refused

====
